---- MODULE Spec2Model ----
(***************************************************************************)
(* Model of the modia validation engine (jQuery based).                    *)
(*                                                                         *)
(* The repository carries two revisions of the validation classes:         *)
(*   rev = 1  the files under src/modia/ (FieldErrorRenderer that finds    *)
(*            its error nodes by CSS class, FieldValidator that checks     *)
(*            visibility before clearing);                                 *)
(*   rev = 2  the v1.2.0 files src/unnamed/part_007 (FieldErrorRenderer    *)
(*            that tags its nodes with data-modia-error), part_009         *)
(*            (FieldValidator that clears before the visibility check) and *)
(*            part_006 (ValidationComponent).                              *)
(* A behaviour fixes rev in its first state.  ComponentScanner,            *)
(* BaseComponent and Container are the last revision in src/modia/core.js. *)
(*                                                                         *)
(* The page is a tree of element nodes: kids gives the ordered children,   *)
(* cls the class list, idAttr the id attribute.  jQuery calls are modelled *)
(* by what jQuery does on such a tree.                                     *)
(***************************************************************************)
EXTENDS Integers, Sequences, FiniteSets, TLC

\* ------------------------------------------------------------------ bounds
MaxDyn == 2          \* elements the renderers may create and keep in the page
NumMsgs == 2         \* distinct message markups

\* --------------------------------------------------------------- the nodes
None == 0
Root == 1            \* the validation root ([data-component="validation"])
G1 == 2              \* <div class="form-group">
G2 == 3              \* <div class="form-group">
W1 == 4              \* <div class="col"> between a form-group and its field
F1 == 5              \* <input class="form-control">
F2 == 6              \* <input class="form-control">
T1 == 7              \* the error templates block
H1 == 8              \* <span class="text-danger"> written by the page author
NumStatic == 8

StaticNodes == 1..NumStatic
DynNodes == (NumStatic + 1)..(NumStatic + MaxDyn)
Nodes == StaticNodes \cup DynNodes
Fields == {F1, F2}
Msgs == 1..NumMsgs
Null == 0            \* JavaScript null (no message)

Range(s) == {s[i] : i \in 1..Len(s)}

\* ---------------------------------------------------- renderer configuration
containerSelectors == {"form-group", "input-group", "form-field"}
errorTemplateClass == "error-template"
errorClasses == {"text-danger", "invalid-feedback", "form-error-message"}
defaultStyle == "bootstrap"
Styles == {"rails", "bootstrap", "custom"}

errorStyles ==
  [s \in Styles |->
     CASE s = "rails" ->
            [containerClass |-> "field_with_errors",
             errorClass |-> "form-error",
             messageClass |-> "form-error-message"]
       [] s = "bootstrap" ->
            [containerClass |-> "",
             errorClass |-> "is-invalid",
             messageClass |-> "invalid-feedback"]
       [] s = "custom" ->
            [containerClass |-> "", errorClass |-> "", messageClass |-> ""]]

\* ------------------------------------------------------------- page markup
\* The class attribute each static element is written with.
StaticCls(n) ==
  CASE n = Root -> {}
    [] n \in {G1, G2} -> {"form-group"}
    [] n = W1 -> {"col"}
    [] n \in Fields -> {"form-control"}
    [] n = T1 -> {"error-templates"}
    [] n = H1 -> {"text-danger"}
    [] OTHER -> {}

NoKids == [n \in Nodes |-> << >>]

\* The page structures a behaviour may start from.
Layouts == {"single", "nested", "bare", "hinted", "shared", "separate"}

LayoutKids(l) ==
  CASE l = "single" ->
         [NoKids EXCEPT ![Root] = <<G1, T1>>, ![G1] = <<F1>>]
    [] l = "nested" ->
         [NoKids EXCEPT ![Root] = <<G1>>, ![G1] = <<W1>>, ![W1] = <<F1>>]
    [] l = "bare" ->
         [NoKids EXCEPT ![Root] = <<F1, T1>>]
    [] l = "hinted" ->
         [NoKids EXCEPT ![Root] = <<G1>>, ![G1] = <<F1, H1>>]
    [] l = "shared" ->
         [NoKids EXCEPT ![Root] = <<G1, T1>>, ![G1] = <<F1, F2>>]
    [] l = "separate" ->
         [NoKids EXCEPT ![Root] = <<G1, G2, T1>>, ![G1] = <<F1>>, ![G2] = <<F2>>]

\* Whether the page author gave the elements id attributes.
IdAttrs(withIds) ==
  [n \in Nodes |-> IF withIds /\ n \in StaticNodes THEN n ELSE None]

\* A detached element: no class, no marker, no content.
BlankMark == [c |-> None, f |-> None, set |-> FALSE]

InitDom(l, withIds) ==
  [kids |-> LayoutKids(l),
   cls |-> [n \in Nodes |-> IF n \in StaticNodes THEN StaticCls(n) ELSE {}],
   idAttr |-> IdAttrs(withIds),
   mark |-> [n \in Nodes |-> BlankMark],
   html |-> [n \in Nodes |-> Null],
   owner |-> [n \in Nodes |-> None]]

\* ------------------------------------------------------------ jQuery on d
Kids(d, n) == Range(d.kids[n])

ParentOf(d, n) ==
  IF \E p \in Nodes : n \in Kids(d, p)
    THEN CHOOSE p \in Nodes : n \in Kids(d, p)
    ELSE None

Attached(d, n) == n = Root \/ ParentOf(d, n) # None

RECURSIVE Find(_, _)
Find(d, n) == Kids(d, n) \cup UNION {Find(d, k) : k \in Kids(d, n)}

Siblings(d, n) ==
  IF ParentOf(d, n) = None THEN {} ELSE Kids(d, ParentOf(d, n)) \ {n}

IndexOf(s, x) == CHOOSE i \in 1..Len(s) : s[i] = x

NextSibling(d, n) ==
  IF ParentOf(d, n) = None THEN None
  ELSE LET s == d.kids[ParentOf(d, n)]
           i == IndexOf(s, n)
       IN IF i < Len(s) THEN s[i + 1] ELSE None

\* jQuery's hasClass compares " " + c + " " with the padded class attribute:
\* for the empty name that is true exactly of an element without classes.
HasClass(d, n, c) ==
  /\ n # None
  /\ IF c = "" THEN d.cls[n] = {} ELSE c \in d.cls[n]

AddClass(d, ns, c) ==
  IF c = "" THEN d
  ELSE [d EXCEPT !.cls = [n \in Nodes |->
                            IF n \in ns THEN d.cls[n] \cup {c} ELSE d.cls[n]]]

RemoveClasses(d, ns, cs) ==
  [d EXCEPT !.cls = [n \in Nodes |->
                       IF n \in ns THEN d.cls[n] \ (cs \ {""}) ELSE d.cls[n]]]

RECURSIVE Closest(_, _, _)
Closest(d, n, cs) ==
  IF n = None THEN None
  ELSE IF d.cls[n] \cap cs # {} THEN n
  ELSE Closest(d, ParentOf(d, n), cs)

SeqWithout(s, xs) == SelectSeq(s, LAMBDA x : x \notin xs)

\* Forget the elements ns: they are in no child list and carry nothing.
Discard(d, ns) ==
  [d EXCEPT
     !.kids = [n \in Nodes |-> IF n \in ns THEN << >> ELSE SeqWithout(d.kids[n], ns)],
     !.cls = [n \in Nodes |->
                IF n \in ns /\ n \in DynNodes THEN {} ELSE d.cls[n]],
     !.mark = [n \in Nodes |-> IF n \in ns THEN BlankMark ELSE d.mark[n]],
     !.html = [n \in Nodes |-> IF n \in ns THEN Null ELSE d.html[n]],
     !.owner = [n \in Nodes |-> IF n \in ns THEN None ELSE d.owner[n]]]

\* $(ns).remove(): the elements leave the page together with their subtrees.
Remove(d, ns) == Discard(d, ns \cup UNION {Find(d, n) : n \in ns})

AppendTo(d, p, n) == [d EXCEPT !.kids[p] = Append(d.kids[p], n)]

InsertAfter(d, target, n) ==
  LET p == ParentOf(d, target) IN
  IF p = None THEN d
  ELSE LET s == d.kids[p]
           i == IndexOf(s, target)
       IN [d EXCEPT !.kids[p] = SubSeq(s, 1, i) \o <<n>> \o SubSeq(s, i + 1, Len(s))]

FreeNodes(d) == {n \in DynNodes : ~Attached(d, n)}
NewNode(d) == CHOOSE n \in FreeNodes(d) : \A m \in FreeNodes(d) : n <= m

\* $(n).wrap('<div class="c"></div>')
Wrap(d, n, c) ==
  LET p == ParentOf(d, n)
      w == NewNode(d)
      s == d.kids[p]
      i == IndexOf(s, n)
  IN [d EXCEPT !.kids = [d.kids EXCEPT ![p] = [s EXCEPT ![i] = w], ![w] = <<n>>],
               !.cls[w] = {c}]

\* $(w).replaceWith($(n)) for a child n of w: n takes w's place, w and what
\* else it holds leave the page.
ReplaceWith(d, w, n) ==
  LET p == ParentOf(d, w)
      s == d.kids[p]
      i == IndexOf(s, w)
      gone == ({w} \cup Find(d, w)) \ ({n} \cup Find(d, n))
      d1 == [d EXCEPT !.kids = [d.kids EXCEPT ![p] = [s EXCEPT ![i] = n]]]
  IN Discard(d1, gone)

\* ============================================================ FieldErrorRenderer
\* A renderer object: the unit it was built for, $errorScreen, the cached
\* $container, the name of currentStyle and _lastErrorMessage.
Units == {1, 2}
EsOf(u) == IF u = 1 THEN F1 ELSE F2
\* The units whose element is in the page.
Live(d) == {u \in Units : Attached(d, EsOf(u))}

NewRenderer(d, es, style, u) ==
  [unit |-> u,
   es |-> es,
   container |-> Closest(d, es, containerSelectors),
   style |-> IF style \in Styles THEN style ELSE "bootstrap",
   last |-> Null]

\* A setStyle that also forgets the message rendered last.
setStyleAfresh(r, styleName) ==
  IF styleName \in Styles THEN [r EXCEPT !.style = styleName, !.last = Null]
                          ELSE r

setStyle(r, styleName) ==
  IF styleName \in Styles THEN [r EXCEPT !.style = styleName] ELSE r

\* The callback given to .filter() in clearError is bound to the renderer,
\* so the $(this) it inspects is the renderer object, never the candidate
\* element n: .closest(errorTemplateClass) of it is empty for every n.
KeptByTemplateFilter(d, n) == TRUE

\* ---- rev 1: src/modia/services/field-error-renderer.js
hasErrorV1(d, r) ==
  LET st == errorStyles[r.style]
      nx == NextSibling(d, r.es)
  IN \/ HasClass(d, r.es, st.errorClass)
     \/ HasClass(d, ParentOf(d, r.es), st.containerClass)
     \/ (nx # None /\ "field-error-message" \in d.cls[nx])

\* The tail of clearError: the wrapper around the element, if it carries one
\* of the classes cs, gives its place back to the element.
unwrapField(d, es, cs) ==
  LET p == ParentOf(d, es)
  IN IF p # None /\ d.cls[p] \cap (cs \ {""}) # {} THEN ReplaceWith(d, p, es)
                                                    ELSE d

clearErrorV1(d, r, preserveTemplates) ==
  [dom |-> unwrapField(
             RemoveClasses(
               Remove(d, {n \in Siblings(d, r.es) :
                            d.cls[n] \cap errorClasses # {}
                              /\ KeptByTemplateFilter(d, n)}),
               {r.es}, {errorStyles[r.style].errorClass}),
             r.es, {errorStyles[r.style].containerClass}),
   r |-> [r EXCEPT !.last = Null]]

\* The head of renderError: an error already shown is cleared first.
clearIfErrorV1(d, r) ==
  IF hasErrorV1(d, r) THEN clearErrorV1(d, r, FALSE) ELSE [dom |-> d, r |-> r]

\* $errorScreen.wrap(...) for a style with a containerClass.
wrapField(d, r) ==
  LET st == errorStyles[r.style]
  IN IF st.containerClass # ""
          /\ ~HasClass(d, ParentOf(d, r.es), st.containerClass)
       THEN Wrap(d, r.es, st.containerClass)
       ELSE d

\* The new element e goes to the end of $container, or right after the
\* element when there is no container.
insertMessage(d, r, e) ==
  IF r.container # None THEN AppendTo(d, r.container, e)
                        ELSE InsertAfter(d, r.es, e)

createMessageV1(d, r, html) ==
  LET e == NewNode(d)
  IN insertMessage(
       [d EXCEPT !.cls[e] = {"field-error-message"}
                              \cup ({errorStyles[r.style].messageClass} \ {""}),
                 !.html[e] = html,
                 !.owner[e] = r.unit],
       r, e)

\* renderError once the old error is cleared (c: the page and the renderer)
showErrorV1(c, html) ==
  [dom |-> createMessageV1(
             wrapField(AddClass(c.dom, {c.r.es}, errorStyles[c.r.style].errorClass),
                       c.r),
             c.r, html),
   r |-> [c.r EXCEPT !.last = html]]

renderErrorV1(d, r, html, styleName) ==
  showErrorV1(clearIfErrorV1(d, setStyle(r, styleName)), html)

\* ---- rev 2: src/unnamed/part_007
UnknownContainer == -1     \* 'unknown-container'
UnknownField == -2         \* 'unknown-field'
defaultErrorClass == "text-danger"

_getFieldId(d, r) ==
  IF d.idAttr[r.es] # None THEN d.idAttr[r.es] ELSE UnknownField

_getContainerId(d, r) ==
  IF r.container # None /\ d.idAttr[r.container] # None
    THEN d.idAttr[r.container]
    ELSE UnknownContainer

\* [data-modia-error^="<containerId>:"]
MarkedFor(d, n, containerId) == d.mark[n].set /\ d.mark[n].c = containerId

hasErrorV2(d, r) ==
  LET st == errorStyles[r.style]
      cid == _getContainerId(d, r)
      hasErrorInContainer ==
        /\ r.container # None
        /\ \E n \in Find(d, r.container) : MarkedFor(d, n, cid)
      hasErrorInSiblings == \E n \in Siblings(d, r.es) : MarkedFor(d, n, cid)
  IN \/ HasClass(d, r.es, st.errorClass)
     \/ HasClass(d, ParentOf(d, r.es), st.containerClass)
     \/ hasErrorInContainer
     \/ hasErrorInSiblings

\* The elements carrying this renderer's container id in their marker.
markedErrors(d, r) ==
  IF r.container # None
    THEN {n \in Find(d, r.container) : MarkedFor(d, n, _getContainerId(d, r))}
    ELSE {n \in Siblings(d, r.es) : MarkedFor(d, n, _getContainerId(d, r))}

clearErrorV2(d, r, preserveTemplates) ==
  [dom |-> unwrapField(
             RemoveClasses(
               Remove(d, IF preserveTemplates
                           THEN {n \in markedErrors(d, r) : KeptByTemplateFilter(d, n)}
                           ELSE markedErrors(d, r)),
               {r.es}, {errorStyles[s].errorClass : s \in Styles}),
             r.es, {errorStyles[s].containerClass : s \in Styles}),
   r |-> [r EXCEPT !.last = Null]]

clearIfErrorV2(d, r) ==
  IF hasErrorV2(d, r) THEN clearErrorV2(d, r, FALSE) ELSE [dom |-> d, r |-> r]

createMessageV2(d, r, html) ==
  LET e == NewNode(d)
  IN insertMessage(
       [d EXCEPT !.cls[e] = {defaultErrorClass},
                 !.html[e] = html,
                 !.mark[e] = [c |-> _getContainerId(d, r), f |-> _getFieldId(d, r),
                              set |-> TRUE],
                 !.owner[e] = r.unit],
       r, e)

showErrorV2(c, html) ==
  [dom |-> createMessageV2(
             wrapField(AddClass(c.dom, {c.r.es}, errorStyles[c.r.style].errorClass),
                       c.r),
             c.r, html),
   r |-> [c.r EXCEPT !.last = html]]

renderErrorV2(d, r, html, styleName) ==
  showErrorV2(clearIfErrorV2(d, setStyle(r, styleName)), html)

\* ---- the revision in use
hasError(rv, d, r) == IF rv = 1 THEN hasErrorV1(d, r) ELSE hasErrorV2(d, r)

clearError(rv, d, r, preserveTemplates) ==
  IF rv = 1 THEN clearErrorV1(d, r, preserveTemplates)
            ELSE clearErrorV2(d, r, preserveTemplates)

renderError(rv, d, r, html, styleName) ==
  IF rv = 1 THEN renderErrorV1(d, r, html, styleName)
            ELSE renderErrorV2(d, r, html, styleName)

clearIfError(rv, d, r) ==
  IF rv = 1 THEN clearIfErrorV1(d, r) ELSE clearIfErrorV2(d, r)

\* What renderError would create in d: the error node and, for a style with
\* a containerClass, the wrapper.
NodesToCreate(d, r) ==
  IF errorStyles[r.style].containerClass # ""
       /\ ~HasClass(d, ParentOf(d, r.es), errorStyles[r.style].containerClass)
    THEN 2 ELSE 1

RoomAfterClear(d, r) == Cardinality(FreeNodes(d)) >= NodesToCreate(d, r)

\* The page has room for what renderError(html) would create (the renderers
\* may keep at most MaxDyn elements in the page).
RoomToRender(rv, d, r) == RoomAfterClear(clearIfError(rv, d, r).dom, r)

\* ------------------------------------------------------------ field attributes
\* <input type="text"> without name, required, data-min-length or
\* data-error-text-* attributes.
PlainField ==
  [name |-> "", type |-> "text", required |-> FALSE, minLength |-> None,
   inline |-> {}]

\* ================================================================ validation rules
\* Of the rules of the configuration, those whose selector can match a field
\* of the modelled pages ([required], [data-min-length]), in their order in
\* the array.  The rev 1 configuration holds the rule required only.
validationRules(rv) ==
  IF rv = 1 THEN <<"required">> ELSE <<"required", "min-length">>

\* $valueSource.is(rule.selector): some element of the collection matches.
MatchesSelector(at, vs, rule) ==
  \E i \in 1..Len(vs) :
    CASE rule = "required" -> at[vs[i]].required
      [] rule = "min-length" -> at[vs[i]].minLength # None
      [] OTHER -> FALSE

RECURSIVE SumSeq(_)
SumSeq(s) == IF s = << >> THEN 0 ELSE Head(s) + SumSeq(Tail(s))

\* rule.validate($field, validator) on the values getFieldValue() returned
\* (a value is the length of the text typed; the texts typed have no blanks).
\* TRUE: the rule fails.
RuleFails(at, vs, rule, values) ==
  CASE rule = "required" -> \A i \in 1..Len(values) : values[i] = 0
    [] rule = "min-length" ->
         /\ at[vs[1]].minLength # None
         /\ SumSeq(values) < at[vs[1]].minLength
    [] OTHER -> FALSE

\* ================================================================== FieldValidator
\* A validator object: $valueSource (the fields of the group, in document
\* order), $errorScreen and the cached applicableRules.
NoValidator == [vs |-> << >>, es |-> None, rules |-> << >>]

loadRules(at, rv, vs) ==
  SelectSeq(validationRules(rv), LAMBDA rule : MatchesSelector(at, vs, rule))

NewValidator(at, rv, vs, es) ==
  [vs |-> vs, es |-> es, rules |-> loadRules(at, rv, vs)]

getFieldValue(fl, v) == [i \in 1..Len(v.vs) |-> fl[v.vs[i]].value]

\* A validator for which every unit counts as visible and enabled.
isVisibleForValidationAlways(fl, v) == TRUE

isVisibleForValidation(fl, v) == fl[v.es].shown = "visible"

_isFieldArray(v) == Len(v.vs) > 1

_isCheckboxOrRadioGroup(at, v) ==
  Len(v.vs) > 0 /\ at[v.vs[1]].type \in {"checkbox", "radio"}

\* ---- the message of a failed rule
\* A message markup is identified by the rule and the level it came from.
RuleIndex(rule) == IF rule = "required" THEN 1 ELSE 2
MsgOf(rule, level) == 10 * RuleIndex(rule) + level
RuleOfMsg(m) == IF m \div 10 = 1 THEN "required" ELSE "min-length"

\* DEFAULT_CONFIG has the key legacyTemplates and no key separateTemplates.
separateTemplatesDefined == FALSE

\* data-error-text-<rule> on the first element of $valueSource
_getInlineErrorMessage(at, v, rule) == rule \in at[v.vs[1]].inline

\* $root.find('.error-template [data-rule="<rule>"]'): the templates block T1
\* holds an element [data-rule] for each rule of tpl.
_getContainerTemplateMessage(d, tp, rule) ==
  /\ T1 \in Find(d, Root)
  /\ errorTemplateClass \in d.cls[T1]
  /\ rule \in tp

\* [message, level, thrown]: thrown when reading
\* DEFAULT_CONFIG.separateTemplates[ruleName] raises the TypeError.
_getErrorMessageWithLevel(at, tp, d, v, rule) ==
  IF _getInlineErrorMessage(at, v, rule)
    THEN [message |-> MsgOf(rule, 1), level |-> 1, thrown |-> FALSE]
  ELSE IF _getContainerTemplateMessage(d, tp, rule)
    THEN [message |-> MsgOf(rule, 2), level |-> 2, thrown |-> FALSE]
  ELSE IF ~separateTemplatesDefined
    THEN [message |-> Null, level |-> 3, thrown |-> TRUE]
  ELSE [message |-> MsgOf(rule, 4), level |-> 4, thrown |-> FALSE]

\* ---- validate()
\* The loop over applicableRules from rule i on: the rules evaluated so far
\* and the index of the rule that failed (0: none).
RECURSIVE RunRules(_, _, _, _, _)
RunRules(at, fl, v, i, seen) ==
  IF i > Len(v.rules) THEN [failed |-> 0, evaluated |-> seen]
  ELSE IF RuleFails(at, v.vs, v.rules[i], getFieldValue(fl, v))
    THEN [failed |-> i, evaluated |-> Append(seen, v.rules[i])]
  ELSE RunRules(at, fl, v, i + 1, Append(seen, v.rules[i]))

\* The outcome of a validate() call: the page and the renderer after it, what
\* it returned ("true", "false", or "throw" for an exception), the rules it
\* evaluated, and ok = FALSE when the page has no room left for the error.
Outcome(d, r, result, evaluated, ok) ==
  [dom |-> d, r |-> r, result |-> result, evaluated |-> evaluated, ok |-> ok]

\* The .form-group a group of checkboxes or radio buttons shows its error
\* on (None: the error goes to the error screen).
groupContainer(at, d, v) ==
  IF _isFieldArray(v) /\ _isCheckboxOrRadioGroup(at, v)
    THEN Closest(d, v.vs[1], {"form-group"})
    ELSE None

\* The second half of the rev-2 clearError: a temporary renderer on the
\* group's container clears there as well.
clearGroupV2(d, r, g) ==
  IF g # None
    THEN [dom |-> clearErrorV2(d, NewRenderer(d, g, defaultStyle, r.unit), TRUE).dom,
          r |-> r]
    ELSE [dom |-> d, r |-> r]

clearFieldsV2(at, v, c) == clearGroupV2(c.dom, c.r, groupContainer(at, c.dom, v))

\* FieldValidator.clearError()
fvClearError(rv, at, d, r, v) ==
  IF rv = 1 THEN clearErrorV1(d, r, TRUE)
  ELSE clearFieldsV2(at, v,
         clearErrorV2(RemoveClasses(d, Range(v.vs), {"is-invalid"}), r, TRUE))

\* The outcome of a validate() call that rendered its message: x is what
\* renderError left, r the renderer the validator keeps.
Rendered(x, r, evaluated) == Outcome(x.dom, r, "false", evaluated, TRUE)

\* rev 1, the failing rule's message m at hand
reportV1(d, r, c, run, m) ==
  IF m.thrown THEN Outcome(c.dom, c.r, "throw", run.evaluated, TRUE)
  ELSE IF ~RoomToRender(1, c.dom, c.r)
    THEN Outcome(d, r, "false", run.evaluated, FALSE)
  ELSE LET x == renderErrorV1(c.dom, c.r, m.message, "none")
       IN Rendered(x, x.r, run.evaluated)

\* rev 1, the error cleared (c) and the rules run
checkedV1(at, tp, d, r, v, c, run) ==
  IF run.failed = 0 THEN Outcome(c.dom, c.r, "true", run.evaluated, TRUE)
  ELSE reportV1(d, r, c, run,
                _getErrorMessageWithLevel(at, tp, c.dom, v, v.rules[run.failed]))

validateV1(at, tp, fl, d, r, v) ==
  IF ~isVisibleForValidation(fl, v) THEN Outcome(d, r, "true", << >>, TRUE)
  ELSE checkedV1(at, tp, d, r, v, clearErrorV1(d, r, TRUE),
                 RunRules(at, fl, v, 1, << >>))

\* rev 2: the message goes through the renderer rr onto the page d1; the
\* validator keeps rr only if it is its own renderer.
renderViaV2(d, r, c, run, m, d1, rr, onContainer) ==
  IF ~RoomToRender(2, d1, rr)
    THEN Outcome(d, r, "false", run.evaluated, FALSE)
  ELSE LET x == renderErrorV2(d1, rr, m.message, "none")
       IN Rendered(x, IF onContainer THEN c.r ELSE x.r, run.evaluated)

\* rev 2: the fields marked is-invalid (d1), g the group's container
markedV2(d, r, c, run, m, d1, g) ==
  renderViaV2(d, r, c, run, m, d1,
              IF g # None THEN NewRenderer(d1, g, defaultStyle, r.unit) ELSE c.r,
              g # None)

reportV2(at, d, r, v, c, run, m) ==
  IF m.thrown THEN Outcome(c.dom, c.r, "throw", run.evaluated, TRUE)
  ELSE markedV2(d, r, c, run, m, AddClass(c.dom, Range(v.vs), "is-invalid"),
                groupContainer(at, c.dom, v))

checkedV2(at, tp, d, r, v, c, run) ==
  IF run.failed = 0 THEN Outcome(c.dom, c.r, "true", run.evaluated, TRUE)
  ELSE reportV2(at, d, r, v, c, run,
                _getErrorMessageWithLevel(at, tp, c.dom, v, v.rules[run.failed]))

clearedV2(at, tp, fl, d, r, v, c) ==
  IF ~isVisibleForValidation(fl, v) THEN Outcome(c.dom, c.r, "true", << >>, TRUE)
  ELSE checkedV2(at, tp, d, r, v, c, RunRules(at, fl, v, 1, << >>))

validateV2(at, tp, fl, d, r, v) ==
  clearedV2(at, tp, fl, d, r, v, fvClearError(2, at, d, r, v))

validate(rv, at, tp, fl, d, r, v) ==
  IF rv = 1 THEN validateV1(at, tp, fl, d, r, v)
            ELSE validateV2(at, tp, fl, d, r, v)

\* ============================================================ ValidationComponent
\* The descendants of the elements of s in document order.
RECURSIVE DocOrderOf(_, _)
DocOrderOf(d, s) ==
  IF s = << >> THEN << >>
  ELSE <<Head(s)>> \o DocOrderOf(d, d.kids[Head(s)]) \o DocOrderOf(d, Tail(s))

\* The groups of fields, in the order in which the keys enter fieldGroups:
\* the fields that are visible and enabled, grouped by name, a field without
\* a name in a group of its own.
_findAndGroupFields(at, fl, d) ==
  LET all == SelectSeq(DocOrderOf(d, d.kids[Root]),
                       LAMBDA n : n \in Fields /\ fl[n].shown = "visible")
      key(i) == IF at[all[i]].name = "" THEN [name |-> "", idx |-> i]
                                        ELSE [name |-> at[all[i]].name, idx |-> 0]
      idxs == [i \in 1..Len(all) |-> i]
      firsts == SelectSeq(idxs, LAMBDA i : \A j \in 1..(i - 1) : key(j) # key(i))
      members(i) == SelectSeq(idxs, LAMBDA j : key(j) = key(i))
  IN [g \in 1..Len(firsts) |->
        [k \in 1..Len(members(firsts[g])) |-> all[members(firsts[g])[k]]]]

\* The fields of the modelled pages carry no data-input-value-source and no
\* data-input-error-screen: the value source is the group, the error screen
\* its first element.
_determineValueSourceAndErrorScreen(group) ==
  [valueSource |-> group, errorScreen |-> group[1]]

NoRenderer ==
  [unit |-> None, es |-> None, container |-> None, style |-> defaultStyle,
   last |-> Null]

\* _createValidators: unit g is the validator of the g-th group.
CreatedValidators(at, rv, groups) ==
  [u \in Units |->
     IF u <= Len(groups)
       THEN LET se == _determineValueSourceAndErrorScreen(groups[u])
            IN NewValidator(at, rv, se.valueSource, se.errorScreen)
       ELSE NoValidator]

CreatedRenderers(d, errorStyle, groups) ==
  [u \in Units |->
     IF u <= Len(groups)
       THEN NewRenderer(d, _determineValueSourceAndErrorScreen(groups[u]).errorScreen,
                        errorStyle, u)
       ELSE NoRenderer]

\* What a call on the component produced: per unit what its validate()
\* returned ("none": not called) and the rules it evaluated.
NoOut ==
  [op |-> "none", unit |-> None, result |-> "none",
   unitResult |-> [u \in Units |-> "none"],
   evaluated |-> [u \in Units |-> << >>]]

\* ValidationComponent.validate() from the i-th validator on.  cx holds what
\* the loop reads: rev, attr, tpl, fld, the validators and their order.
RECURSIVE validateFrom(_, _, _)

\* what the loop holds after unit u's validate() returned o
Merged(acc, u, o) ==
  [acc EXCEPT !.dom = o.dom,
              !.rend[u] = o.r,
              !.unitResult[u] = o.result,
              !.evaluated[u] = o.evaluated,
              !.result = IF o.result = "true" THEN @ ELSE o.result]

validateNext(cx, i, acc, u, o) ==
  IF ~o.ok THEN [acc EXCEPT !.ok = FALSE]
  ELSE IF o.result = "throw" THEN Merged(acc, u, o)
  ELSE validateFrom(cx, i + 1, Merged(acc, u, o))

validateFrom(cx, i, acc) ==
  IF i > Len(cx.order) THEN acc
  ELSE validateNext(cx, i, acc, cx.order[i],
                    validate(cx.rev, cx.attr, cx.tpl, cx.fld, acc.dom,
                             acc.rend[cx.order[i]], cx.fv[cx.order[i]]))

\* ValidationComponent.clearErrors() from the i-th validator on
RECURSIVE clearErrorsFrom(_, _, _)

clearedUnit(acc, u, c) == [acc EXCEPT !.dom = c.dom, !.rend[u] = c.r]

clearErrorsFrom(cx, i, acc) ==
  IF i > Len(cx.order) THEN acc
  ELSE clearErrorsFrom(cx, i + 1,
         clearedUnit(acc, cx.order[i],
                     fvClearError(cx.rev, cx.attr, acc.dom, acc.rend[cx.order[i]],
                                  cx.fv[cx.order[i]])))

\* getErrors() of revision 2: for each validator whose renderer says
\* hasError(), in their order, the unit and getLastErrorMessage().
getErrors(d, rends, ord) ==
  [i \in 1..Len(SelectSeq(ord, LAMBDA u : hasErrorV2(d, rends[u]))) |->
     [unit |-> SelectSeq(ord, LAMBDA u : hasErrorV2(d, rends[u]))[i],
      message |->
        rends[SelectSeq(ord, LAMBDA u : hasErrorV2(d, rends[u]))[i]].last]]

\* ================================================= ComponentScanner, BaseComponent
\* The elements scan() can find: the marked subtrees E1, E2 and E3, in
\* document order, E3 lying inside E2.
Document == 0
E1 == 1
E2 == 2
E3 == 3
Elements == {E1, E2, E3}
Inside(e) == IF e = E3 THEN E2 ELSE Document

MaxInst == 4         \* component objects constructed in a behaviour
NoInstance == 0

\* $(root).find(selector).addBack(selector): the marked elements that are
\* root or lie inside root, in document order.
RECURSIVE Within(_, _)
Within(e, root) ==
  \/ e = root
  \/ root = Document
  \/ (e # Document /\ Within(Inside(e), root))

ScanTargets(mk, root) ==
  SelectSeq(<<E1, E2, E3>>, LAMBDA e : e \in mk /\ Within(e, root))

NoScan == [op |-> "none", root |-> Document, returned |-> << >>, aborted |-> FALSE]

\* The callback of .each() from the i-th element on.  new ComponentClass(el):
\* the BaseComponent constructor stores the back-reference and registers the
\* instance, then the subclass constructor runs and, for an element of flt,
\* throws; the exception leaves the forEach and is caught around it.
RECURSIVE scanFrom(_, _, _, _)
scanFrom(flt, targets, i, acc) ==
  IF i > Len(targets) THEN acc
  ELSE
    LET el == targets[i]
        id == acc.created + 1
        constructed == [acc EXCEPT !.backref[el] = id,
                                   !.instances = Append(@, [id |-> id, el |-> el]),
                                   !.created = id]
    IN IF acc.backref[el] # NoInstance THEN scanFrom(flt, targets, i + 1, acc)
       ELSE IF el \in flt THEN [constructed EXCEPT !.aborted = TRUE]
       ELSE scanFrom(flt, targets, i + 1,
                     [constructed EXCEPT !.returned = Append(@, id),
                                         !.components = Append(@, id)])

\* ComponentScanner.unregisterInstance(instance)
unregisterInstance(ins, id) == SelectSeq(ins, LAMBDA x : x.id # id)

\* container.removeComponent(component)
removeComponent(cs, id) == SelectSeq(cs, LAMBDA c : c # id)

\* container.addComponent(component)
addComponent(cs, id) == Append(cs, id)

\* The shared state is the set of its keys; { ...state, ...newState } has
\* the keys of both.
StateKeys == {"mode", "step"}

\* container.setState(newState) on the container c with the components cs,
\* where the hook onStateChange of the component at place thrower throws
\* (0: none does).  _isSettingState is busy; it is cleared by the last
\* statement only, which a throwing hook keeps from running.  told lists
\* the components whose hook was called.
setState(c, cs, newState, thrower) ==
  IF c.busy
    THEN [c EXCEPT !.op = "set", !.given = newState, !.threw = FALSE,
                   !.told = << >>]
  ELSE [state |-> c.state \cup newState,
        busy |-> thrower # 0,
        op |-> "set", given |-> newState, threw |-> thrower # 0,
        told |-> IF thrower = 0 THEN cs ELSE SubSeq(cs, 1, thrower)]

\* The element a registered instance was constructed on.
ElementOf(ins, id) == (CHOOSE x \in Range(ins) : x.id = id).el

\* destroy() as the revision of 2026-02-17 has it: the container keeps the
\* component.
destroyKeepsComponent(st, id) ==
  [st EXCEPT !.backref[ElementOf(st.instances, id)] = NoInstance,
             !.instances = unregisterInstance(@, id)]

\* BaseComponent.destroy() of the instance id: removeData on its element,
\* out of the registry and, if the scanner gave it a container, out of the
\* container's list.
destroy(st, id) ==
  [st EXCEPT !.backref[ElementOf(st.instances, id)] = NoInstance,
             !.instances = unregisterInstance(@, id),
             !.components = removeComponent(@, id)]

\* Container.destroy(): forEach over this.components from the i-th place on,
\* while the destroy() of each component takes it out of that same list;
\* then the list is emptied.
RECURSIVE containerDestroy(_, _)
containerDestroy(st, i) ==
  IF i > Len(st.components) THEN [st EXCEPT !.components = << >>]
  ELSE containerDestroy(destroy(st, st.components[i]), i + 1)

\* ===================================================== ValidationComponent events
DebounceDelay == 2   \* config.debounceDelay, in ticks of the clock
Idle == -1           \* no timeout pending

\* An event handler: the element it is bound on, the event type, the
\* namespace it was bound with ("": none), the unit whose validate() it
\* runs (None: the component's) and the debounced function it goes through.
Handler(el, type, ns, u, deb) ==
  [el |-> el, type |-> type, ns |-> ns, unit |-> u, deb |-> deb]

\* _bindEvents(): this._on binds on the root with the namespace modia.  Rev 2
\* binds submit only if the root is a form.
_bindEvents(rv, isForm) ==
  {Handler(Root, t, "modia", None, None) :
     t \in IF rv = 1 \/ isForm THEN {"submit", "click", "field-added"}
                              ELSE {"click", "field-added"}}

\* _setupLiveValidation($fields, validator).  Rev 1 binds without a namespace
\* and puts one debounced function on all the fields of the unit; rev 2 binds
\* with the namespace modia-live and makes a debounced function per field.
_setupLiveValidation(rv, u, vs) ==
  UNION {{Handler(vs[i], "blur", IF rv = 1 THEN "" ELSE "modia-live", u, None),
          Handler(vs[i], "change", IF rv = 1 THEN "" ELSE "modia-live", u, None),
          Handler(vs[i], "input", IF rv = 1 THEN "" ELSE "modia-live", u,
                  IF rv = 1 THEN u ELSE vs[i])} : i \in 1..Len(vs)}

\* The handlers the constructor leaves: _createValidators sets up live
\* validation per unit if config.live, then _bindEvents.
boundAtInit(rv, cfg, vals, ord) ==
  _bindEvents(rv, cfg.isForm) \cup
  (IF cfg.live
     THEN UNION {_setupLiveValidation(rv, ord[i], vals[ord[i]].vs) :
                   i \in 1..Len(ord)}
     ELSE {})

\* debounce(func, wait): a call clears the pending timeout and sets a new one.
debounced(tm, k) == [tm EXCEPT ![k] = DebounceDelay]

\* The unit whose validate() the debounced function k runs.
debouncedUnit(rv, vals, k) ==
  IF rv = 1 THEN k
  ELSE CHOOSE u \in Units : \E i \in 1..Len(vals[u].vs) : vals[u].vs[i] = k

\* ValidationComponent.destroy().  Rev 1 inherits BaseComponent.destroy():
\* $el.off('.modia').  Rev 2 first takes the handlers of the namespace
\* modia-live off the fields.
componentDestroy(rv, hs) ==
  {h \in hs : ~(h.el = Root /\ h.ns = "modia")
              /\ ~(rv = 2 /\ h.el \in Fields /\ h.ns = "modia-live")}

\* fieldValidators.find(v => v.$valueSource.filter('[name="..."]').length > 0)
\* (None: the field has no name or no validator holds a field of that name).
existingValidator(at, vals, ord, name) ==
  LET hits == SelectSeq(ord, LAMBDA u :
                \E i \in 1..Len(vals[u].vs) : at[vals[u].vs[i]].name = name)
  IN IF name = "" \/ hits = << >> THEN None ELSE Head(hits)

\* $valueSource.add($newField): the union, in document order.
add(d, vs, f) ==
  SelectSeq(DocOrderOf(d, d.kids[Root]), LAMBDA n : n \in Range(vs) \cup {f})

\* _handleFieldAdded when a validator holds a field of that name: the field
\* joins its $valueSource and the rules are loaded again.
fieldJoins(at, rv, d, st, u, f) ==
  [st EXCEPT !.fv[u].vs = add(d, @, f),
             !.fv[u].rules = loadRules(at, rv, add(d, st.fv[u].vs, f))]

\* _handleFieldAdded otherwise: _createValidatorForGroup([$newField]) and push.
fieldAlone(at, rv, d, cfg, st, u, f) ==
  [st EXCEPT !.fv[u] = NewValidator(at, rv, <<f>>, f),
             !.rend[u] = NewRenderer(d, f, cfg.errorStyle, u),
             !.order = Append(@, u),
             !.handlers = @ \cup IF cfg.live
                                   THEN _setupLiveValidation(rv, u, <<f>>)
                                   ELSE {}]

\* A handler that makes a unit for every field added.
_handleFieldAddedApart(at, rv, d, cfg, st, f) ==
  fieldAlone(at, rv, d, cfg, st, Len(st.order) + 1, f)

\* _handleFieldAdded(event), event.target the field f.
_handleFieldAdded(at, rv, d, cfg, st, f) ==
  IF existingValidator(at, st.fv, st.order, at[f].name) # None
    THEN fieldJoins(at, rv, d, st, existingValidator(at, st.fv, st.order,
                                                     at[f].name), f)
    ELSE fieldAlone(at, rv, d, cfg, st, Len(st.order) + 1, f)

\* setErrorStyle(styleName): setStyle on the renderer of every validator;
\* config is not written.
setErrorStyle(cfg, rends, ord, styleName) ==
  [config |-> cfg,
   rend |-> [u \in Units |-> IF u \in Range(ord)
                               THEN setStyle(rends[u], styleName)
                               ELSE rends[u]]]

\* refreshRules(): every validator loads its rules again.
refreshRules(at, rv, vals, ord) ==
  [u \in Units |-> IF u \in Range(ord)
                     THEN [vals[u] EXCEPT !.rules = loadRules(at, rv, vals[u].vs)]
                     ELSE vals[u]]

\* ================================================================ field values
\* A member of a $valueSource as getFieldValue reads it: its tag, the type
\* of an input, what .val() gives (nothing, blanks only, a text) and
\* whether a checkbox or radio button is checked.
MaxMembers == 2      \* elements of a $valueSource

Vals == {"", " ", "x"}
ChoiceTypes == {"checkbox", "radio"}
Member(tag, type, val, checked) ==
  [tag |-> tag, type |-> type, val |-> val, checked |-> checked]
Members ==
  {Member("input", "text", v, FALSE) : v \in Vals}
    \cup {Member("input", t, v, c) : t \in ChoiceTypes, v \in Vals, c \in BOOLEAN}
    \cup {Member(tag, "none", v, FALSE) : tag \in {"textarea", "select"}, v \in Vals}

\* What getFieldValue takes from one element.  In an array rev 1 reads
\* .val() of an input or select, rev 2 that of a checked checkbox or radio
\* button, of another input or of a select; neither reads a textarea there.
\* Of a single element rev 1 reads .val(), rev 2 again only that of a
\* checked checkbox or radio button.
valueOfMember(rv, m, inArray) ==
  IF rv = 2 /\ m.tag = "input" /\ m.type \in ChoiceTypes
    THEN IF m.checked THEN m.val ELSE ""
  ELSE IF inArray /\ m.tag = "textarea" THEN ""
  ELSE m.val

\* getFieldValue(), a single value taken as the array of it
valuesOfMembers(rv, ms) ==
  [i \in 1..Len(ms) |-> valueOfMember(rv, ms[i], Len(ms) > 1)]

\* isEmpty(value) of a string
isEmpty(val) == val \in {"", " "}

\* required.validate: some value is not empty
requiredValid(values) == \E i \in 1..Len(values) : ~isEmpty(values[i])

\* ============================================================ message templates
\* A message is a sequence of tokens: plain text or a placeholder __NAME__,
\* written in lower or in upper case.  The parameters are the keys of the
\* params object in the order Object.keys gives them; the value of a key is
\* identified by the key.
MaxTokens == 2       \* tokens of a message
MaxParams == 2       \* keys of a params object

Cases == {"lower", "upper"}
ParamNames == {"count", "max"}
\* constructor is a property every object inherits from Object.prototype.
InheritedNames == {"constructor"}

Text == [kind |-> "text"]
Slot(n, c) == [kind |-> "slot", name |-> n, case |-> c]
ValueOf(k) == [kind |-> "value", key |-> k]
InheritedValue(n) == [kind |-> "inherited", name |-> n]

Tokens ==
  {Text} \cup {Slot(n, c) : n \in ParamNames \cup InheritedNames, c \in Cases}
ParamKeys == {[name |-> n, case |-> c] : n \in ParamNames, c \in Cases}

\* The keys of params whose name is that of the placeholder, whatever the case.
KeysNamed(params, tok) ==
  SelectSeq(params, LAMBDA k : k.name = tok.name)

\* The replacement of one match of /__\w+__/.  Rev 1 reads params[key] with
\* the key as written, which also finds what params inherits; rev 2 takes
\* the first of Object.keys(params) equal to the key in lower case.
replaced(rv, tok, params) ==
  IF rv = 1
    THEN IF \E i \in 1..Len(params) : params[i] = [name |-> tok.name, case |-> tok.case]
           THEN ValueOf([name |-> tok.name, case |-> tok.case])
         ELSE IF tok.name \in InheritedNames /\ tok.case = "lower"
           THEN InheritedValue(tok.name)
         ELSE tok
    ELSE IF KeysNamed(params, tok) # << >>
           THEN ValueOf(Head(KeysNamed(params, tok)))
           ELSE tok

\* _formatMessage(message, params)
_formatMessage(rv, message, params) ==
  [i \in 1..Len(message) |->
     IF message[i].kind = "slot" THEN replaced(rv, message[i], params)
                                 ELSE message[i]]

\* =================================================================== state
VARIABLES
  rev,        \* the revision of the validation classes in use
  dom,        \* the page
  rend,       \* the FieldErrorRenderer of each unit
  lastCall,   \* the renderError/clearError call made last: [op, unit]
  trail,      \* per unit: "fresh" (no call yet), "plain" (renderError and
              \* clearError calls only) or "styled" (setStyle was called)
  fld,        \* per field: the value typed and whether it is shown
  attr,       \* per field: the attributes the page author wrote
  tpl,        \* the rules the templates block has a [data-rule] element for
  fv,         \* the FieldValidator of each unit
  order,      \* ValidationComponent.fieldValidators: the units in order
  out,        \* what the last call on the component produced
  marked,     \* the [data-component="validation"] elements in the document
  faulty,     \* those of them whose markup makes the constructor throw
  backref,    \* per element: $(el).data('modia-component')
  instances,  \* ComponentScanner.instances
  components, \* container.components
  created,    \* the number of component objects constructed so far
  scanned,    \* the last ComponentScanner.scan call and what it returned
  gone,       \* the destroyed instances with the element each was built on
  comp,       \* the ValidationComponent: its configuration, whether destroyed
  handlers,   \* the event handlers attached to the root and to the fields
  timer,      \* per debounced function: the ticks until it runs (Idle: none)
  burst,      \* per unit: the ticks since its last keystroke, whether a
              \* debounced validate() ran since
  ev,         \* the last event dispatched and what its handler did
  shared,     \* the Container: its state, its recursion flag, whom the last
              \* setState told
  pure        \* a function, the arguments it is called on and, once it
              \* was called, its result

vars == <<rev, dom, rend, lastCall, trail, fld, attr, tpl, fv, order, out,
          marked, faulty, backref, instances, components, created, scanned,
          gone, comp, handlers, timer, burst, ev, shared, pure>>
renderVars == <<lastCall, trail>>
componentVars == <<fld, attr, tpl, fv, order, out>>
scanVars == <<marked, faulty, backref, instances, components, created, scanned,
              gone>>
eventVars == <<comp, handlers, timer, burst, ev>>

NoCall == [op |-> "none", unit |-> None]

\* new Container(): state = {}, no setState under way
NoShared ==
  [state |-> {}, busy |-> FALSE, op |-> "none", given |-> {}, threw |-> FALSE,
   told |-> << >>]

NoPure == [fn |-> "none", done |-> FALSE]

NoComponent ==
  [live |-> FALSE, isForm |-> FALSE, errorStyle |-> defaultStyle,
   destroyed |-> FALSE, news |-> {}]

NoEvent ==
  [type |-> "none", field |-> None, unit |-> None, ran |-> FALSE,
   result |-> "none", prevented |-> FALSE, submitted |-> FALSE,
   emitted |-> << >>]

Calm == [quiet |-> DebounceDelay, fired |-> FALSE]

\* No ValidationComponent listens.
NoEvents ==
  /\ comp = NoComponent
  /\ handlers = {}
  /\ timer = [k \in Units \cup Fields |-> Idle]
  /\ burst = [u \in Units |-> Calm]
  /\ ev = NoEvent

\* ------------------------------------------------------- scanning a document
NothingScanned ==
  /\ marked = {}
  /\ faulty = {}
  /\ backref = [e \in Elements |-> NoInstance]
  /\ instances = << >>
  /\ components = << >>
  /\ created = 0
  /\ scanned = NoScan
  /\ gone = {}

\* ---------------------------------------------- renderers used on their own
InitRender ==
  /\ rev \in {1, 2}
  /\ \E l \in Layouts \ {"separate"}, withIds \in BOOLEAN :
       /\ (rev = 1 => ~withIds)
       /\ dom = InitDom(l, withIds)
  /\ \E st \in Styles :
       rend = [u \in Units |-> NewRenderer(dom, EsOf(u), st, u)]
  /\ lastCall = NoCall
  /\ trail = [u \in Units |-> "fresh"]
  /\ fld = [f \in Fields |-> [value |-> 0, shown |-> "visible"]]
  /\ attr = [f \in Fields |-> PlainField]
  /\ tpl = {}
  /\ fv = [u \in Units |-> NoValidator]
  /\ order = << >>
  /\ out = NoOut
  /\ NothingScanned
  /\ shared = NoShared
  /\ pure = NoPure
  /\ NoEvents

\* renderer.renderError(html), as FieldValidator.validate calls it
Returned(u, res) ==
  /\ dom' = res.dom
  /\ rend' = [rend EXCEPT ![u] = res.r]

RenderError(u, m) ==
  /\ RoomToRender(rev, dom, rend[u])
  /\ Returned(u, renderError(rev, dom, rend[u], m, "none"))
  /\ lastCall' = [op |-> "render", unit |-> u]
  /\ trail' = [trail EXCEPT ![u] = IF @ = "fresh" THEN "plain" ELSE @]
  /\ UNCHANGED <<rev, shared, pure, componentVars, scanVars, eventVars>>

\* renderer.clearError()
ClearError(u) ==
  /\ Returned(u, clearError(rev, dom, rend[u], TRUE))
  /\ lastCall' = [op |-> "clear", unit |-> u]
  /\ trail' = [trail EXCEPT ![u] = IF @ = "fresh" THEN "plain" ELSE @]
  /\ UNCHANGED <<rev, shared, pure, componentVars, scanVars, eventVars>>

\* renderer.setStyle(styleName)
SetStyle(u, s) ==
  /\ rend' = [rend EXCEPT ![u] = setStyle(rend[u], s)]
  /\ trail' = [trail EXCEPT ![u] = "styled"]
  /\ UNCHANGED <<rev, shared, pure, dom, lastCall, componentVars, scanVars, eventVars>>

NextRender ==
  \/ \E u \in Live(dom), m \in Msgs : RenderError(u, m)
  \/ \E u \in Live(dom) : ClearError(u)
  \/ \E u \in Live(dom), s \in Styles : SetStyle(u, s)

SpecRender == InitRender /\ [][NextRender]_vars

\* ---- one renderer on a page of one field
InitStyle == InitRender /\ Live(dom) = {1}

SpecStyle == InitStyle /\ [][NextRender]_vars

\* --------------------------------------- a ValidationComponent on the page
MaxLen == 1          \* longest text typed into a field
MinLengthAttr == 2   \* data-min-length="2"

AllRules == {"required", "min-length"}
ShownStates == {"visible", "hidden", "disabled"}
ValidateLayouts == {"single", "nested", "separate"}
\* Where the page author put the messages: in data-error-text-* attributes,
\* in a block of class error-template, or in a block of class error-templates.
MessageSources == {"inline", "template", "templates"}
\* The field the page script hides, disables and shows again.
ScriptedFields == {F1}

FieldAttrs(f, src, minl) ==
  [name |-> IF f = F1 THEN "a" ELSE "b",
   type |-> "text",
   required |-> TRUE,
   minLength |-> IF f = F1 THEN minl ELSE None,
   inline |-> IF src = "inline" THEN AllRules ELSE {}]

\* The state after new ValidationComponent(Root): every field visible,
\* enabled and empty, one validator and one renderer per group of fields.
InitComponent(layouts) ==
  /\ rev \in {1, 2}
  /\ fld = [f \in Fields |-> [value |-> 0, shown |-> "visible"]]
  /\ tpl = AllRules
  /\ \E l \in layouts, src \in MessageSources,
        minl \in {None, MinLengthAttr}, errorStyle \in Styles :
       /\ (rev = 1 => minl = None)
       /\ attr = [f \in Fields |-> FieldAttrs(f, src, minl)]
       /\ dom = [InitDom(l, FALSE) EXCEPT
                   !.cls[T1] = IF src = "template" THEN {errorTemplateClass}
                                                   ELSE StaticCls(T1)]
       /\ LET groups == _findAndGroupFields(attr, fld, dom) IN
            /\ fv = CreatedValidators(attr, rev, groups)
            /\ rend = CreatedRenderers(dom, errorStyle, groups)
            /\ order = [i \in 1..Len(groups) |-> i]
  /\ out = NoOut
  /\ lastCall = NoCall
  /\ trail = [u \in Units |-> "fresh"]
  /\ NothingScanned
  /\ shared = NoShared
  /\ pure = NoPure
  /\ NoEvents

InitValidate == InitComponent(ValidateLayouts)

Context == [rev |-> rev, attr |-> attr, tpl |-> tpl, fld |-> fld, fv |-> fv,
            order |-> order]

\* component.validate()
Validate ==
  LET start == [dom |-> dom, rend |-> rend, result |-> "true",
                unitResult |-> NoOut.unitResult, evaluated |-> NoOut.evaluated,
                ok |-> TRUE]
      res == validateFrom(Context, 1, start)
  IN /\ res.ok
     /\ dom' = res.dom
     /\ rend' = res.rend
     /\ out' = [op |-> "validate", unit |-> None, result |-> res.result,
                unitResult |-> res.unitResult, evaluated |-> res.evaluated]
     /\ UNCHANGED <<rev, shared, pure, renderVars, fld, attr, tpl, fv, order, scanVars, eventVars>>

\* validator.validate() of unit u alone (the live-validation handlers and
\* callers holding the validator call it)
UnitValidated(u, o) ==
  /\ o.ok
  /\ dom' = o.dom
  /\ rend' = [rend EXCEPT ![u] = o.r]
  /\ out' = [op |-> "validateUnit", unit |-> u, result |-> o.result,
             unitResult |-> [NoOut.unitResult EXCEPT ![u] = o.result],
             evaluated |-> [NoOut.evaluated EXCEPT ![u] = o.evaluated]]
  /\ UNCHANGED <<rev, shared, pure, renderVars, fld, attr, tpl, fv, order, scanVars, eventVars>>

ValidateUnit(u) ==
  UnitValidated(u, validate(rev, attr, tpl, fld, dom, rend[u], fv[u]))

\* component.clearErrors()
ClearErrors ==
  LET res == clearErrorsFrom(Context, 1, [dom |-> dom, rend |-> rend])
  IN /\ dom' = res.dom
     /\ rend' = res.rend
     /\ out' = [NoOut EXCEPT !.op = "clearErrors"]
     /\ UNCHANGED <<rev, shared, pure, renderVars, fld, attr, tpl, fv, order, scanVars, eventVars>>

\* the user types into field f
SetValue(f, val) ==
  /\ fld[f].value # val
  /\ fld' = [fld EXCEPT ![f].value = val]
  /\ out' = [NoOut EXCEPT !.op = "input"]
  /\ UNCHANGED <<rev, shared, pure, dom, rend, renderVars, attr, tpl, fv, order, scanVars, eventVars>>

\* a page script hides, disables or shows field f
SetShown(f, sh) ==
  /\ fld[f].shown # sh
  /\ fld' = [fld EXCEPT ![f].shown = sh]
  /\ out' = [NoOut EXCEPT !.op = "toggle"]
  /\ UNCHANGED <<rev, shared, pure, dom, rend, renderVars, attr, tpl, fv, order, scanVars, eventVars>>

PageFields == {f \in Fields : Attached(dom, f)}

NextValidate ==
  \/ Validate
  \/ \E u \in Range(order) : ValidateUnit(u)
  \/ ClearErrors
  \/ \E f \in PageFields, val \in 0..MaxLen : SetValue(f, val)
  \/ \E f \in PageFields \cap ScriptedFields, sh \in ShownStates : SetShown(f, sh)

SpecValidate == InitValidate /\ [][NextValidate]_vars

\* ---- a revision 2 component over two units in one .form-group
InitErrors == InitComponent({"shared"}) /\ rev = 2

SpecErrors == InitErrors /\ [][NextValidate]_vars

\* ---- the scanner at work
\* The page as loaded: some marked elements, no component yet.  The other
\* variables describe a page without fields.
InitScan ==
  /\ marked \in {mk \in SUBSET Elements : E3 \in mk => E2 \in mk}
  /\ faulty \in SUBSET Elements
  /\ backref = [e \in Elements |-> NoInstance]
  /\ instances = << >>
  /\ components = << >>
  /\ created = 0
  /\ scanned = NoScan
  /\ gone = {}
  /\ NoEvents
  /\ shared = NoShared
  /\ pure = NoPure
  /\ rev = 2
  /\ dom = InitDom("bare", FALSE)
  /\ rend = [u \in Units |-> NoRenderer]
  /\ lastCall = NoCall
  /\ trail = [u \in Units |-> "fresh"]
  /\ fld = [f \in Fields |-> [value |-> 0, shown |-> "visible"]]
  /\ attr = [f \in Fields |-> PlainField]
  /\ tpl = {}
  /\ fv = [u \in Units |-> NoValidator]
  /\ order = << >>
  /\ out = NoOut

\* ComponentScanner.scan(root)
Scan(root) ==
  LET targets == ScanTargets(marked, root)
      start == [backref |-> backref, instances |-> instances,
                components |-> components, created |-> created,
                returned |-> << >>, aborted |-> FALSE]
      res == scanFrom(faulty, targets, 1, start)
  IN /\ created + Len(targets) <= MaxInst
     /\ backref' = res.backref
     /\ instances' = res.instances
     /\ components' = res.components
     /\ created' = res.created
     /\ scanned' = [op |-> "scan", root |-> root, returned |-> res.returned,
                    aborted |-> res.aborted]
     /\ UNCHANGED <<rev, shared, pure, dom, rend, renderVars, componentVars, marked, faulty, gone,
                     eventVars>>

\* content with the marked element e is put into the document
InsertMarked(e, bad) ==
  /\ e \notin marked
  /\ Inside(e) \in marked \cup {Document}
  /\ marked' = marked \cup {e}
  /\ faulty' = IF bad THEN faulty \cup {e} ELSE faulty \ {e}
  /\ scanned' = NoScan
  /\ UNCHANGED <<rev, shared, pure, dom, rend, renderVars, componentVars, backref, instances,
                 components, created, gone, eventVars>>

Destroyed(id, res) ==
  /\ backref' = res.backref
  /\ instances' = res.instances
  /\ components' = res.components
  /\ gone' = gone \cup {[id |-> id, el |-> ElementOf(instances, id)]}
  /\ scanned' = [NoScan EXCEPT !.op = "destroy"]
  /\ UNCHANGED <<rev, shared, pure, dom, rend, renderVars, componentVars, marked, faulty, created,
                 eventVars>>

\* instance.destroy() on a registered instance
Destroy(id) ==
  Destroyed(id, destroy([backref |-> backref, instances |-> instances,
                         components |-> components], id))

\* container.destroy()
DestroyContainer ==
  LET res == containerDestroy([backref |-> backref, instances |-> instances,
                               components |-> components], 1)
  IN /\ components # << >>
     /\ backref' = res.backref
     /\ instances' = res.instances
     /\ components' = res.components
     /\ gone' = gone \cup (Range(instances) \ Range(res.instances))
     /\ scanned' = [NoScan EXCEPT !.op = "destroyAll"]
     /\ shared' = [shared EXCEPT !.state = {}]
     /\ UNCHANGED <<rev, pure, dom, rend, renderVars, componentVars, marked,
                    faulty, created, eventVars>>

NextScan ==
  \/ DestroyContainer
  \/ \E root \in marked \cup {Document} : Scan(root)
  \/ \E e \in Elements, bad \in BOOLEAN : InsertMarked(e, bad)
  \/ \E x \in Range(instances) : Destroy(x.id)

SpecScan == InitScan /\ [][NextScan]_vars

\* ---- the container at work
\* A container of its own: components are added and removed by hand.
InitContainer == InitScan /\ marked = {} /\ faulty = {}

Contained(cs) ==
  /\ components' = cs
  /\ shared' = [shared EXCEPT !.op = "none", !.given = {}, !.threw = FALSE,
                              !.told = << >>]
  /\ UNCHANGED <<rev, pure, dom, rend, renderVars, componentVars, marked,
                 faulty, backref, instances, created, scanned, gone,
                 eventVars>>

\* container.addComponent(component) with a component not yet in it
AddComponent(id) ==
  /\ id \notin Range(components)
  /\ Contained(addComponent(components, id))

\* container.removeComponent(component)
RemoveComponent(id) ==
  /\ id \in Range(components)
  /\ Contained(removeComponent(components, id))

\* container.setState(newState)
SetState(newState, thrower) ==
  /\ shared' = setState(shared, components, newState, thrower)
  /\ UNCHANGED <<rev, pure, dom, rend, renderVars, componentVars, scanVars,
                 eventVars>>

NextContainer ==
  \/ \E id \in 1..MaxInst : AddComponent(id)
  \/ \E id \in 1..MaxInst : RemoveComponent(id)
  \/ \E newState \in SUBSET StateKeys, thrower \in 0..Len(components) :
       SetState(newState, thrower)

SpecContainer == InitContainer /\ [][NextContainer]_vars

\* ---- a live ValidationComponent and the events of its page
\* The name of the second field: that of the first, or one of its own.
SecondNames == {"a", "b"}

\* The state after new ValidationComponent(Root, {live, errorStyle}) on a page
\* where the second field is in the first one's group ("shared") or is not
\* in the page yet ("single").  The pages with live validation are forms
\* with inline messages; the first field lacks the attribute required only
\* on a page whose script adds a second field of its name.
InitEvents ==
  /\ rev \in {1, 2}
  /\ fld = [f \in Fields |-> [value |-> 0, shown |-> "visible"]]
  /\ tpl = AllRules
  /\ \E l \in {"single", "shared"}, src \in {"inline", "templates"},
        name2 \in SecondNames, live \in BOOLEAN, isForm \in BOOLEAN,
        required1 \in BOOLEAN :
       /\ (l = "shared" => name2 = "a")
       /\ (~required1 => l = "single" /\ name2 = "a")
       /\ (live => isForm /\ src = "inline")
       /\ attr = [f \in Fields |->
                    [FieldAttrs(f, src, None) EXCEPT
                       !.name = IF f = F1 THEN "a" ELSE name2,
                       !.required = f = F2 \/ required1]]
       /\ dom = InitDom(l, FALSE)
       /\ comp = [NoComponent EXCEPT !.live = live, !.isForm = isForm]
  /\ LET groups == _findAndGroupFields(attr, fld, dom) IN
       /\ fv = CreatedValidators(attr, rev, groups)
       /\ rend = CreatedRenderers(dom, comp.errorStyle, groups)
       /\ order = [i \in 1..Len(groups) |-> i]
  /\ handlers = boundAtInit(rev, comp, fv, order)
  /\ timer = [k \in Units \cup Fields |-> Idle]
  /\ burst = [u \in Units |-> Calm]
  /\ ev = NoEvent
  /\ out = NoOut
  /\ lastCall = NoCall
  /\ trail = [u \in Units |-> "fresh"]
  /\ NothingScanned
  /\ shared = NoShared
  /\ pure = NoPure

Bound(el, type) == {h \in handlers : h.el = el /\ h.type = type}

\* this.validate() in the current state
Validated ==
  validateFrom(Context, 1,
               [dom |-> dom, rend |-> rend, result |-> "true",
                unitResult |-> NoOut.unitResult,
                evaluated |-> NoOut.evaluated, ok |-> TRUE])

\* An event no handler is bound for: the browser's default action follows.
Unhandled(type, f, submits) ==
  /\ ev' = [NoEvent EXCEPT !.type = type, !.field = f, !.submitted = submits]
  /\ UNCHANGED <<dom, rend, comp, handlers, timer, burst, fv, order>>

\* The events _handleSubmit triggers on the root, in their order, when
\* validate() gives result.  Revision 1 triggers none.
submitEvents(rv, result) ==
  IF rv = 1 THEN << >>
  ELSE IF result = "true"
    THEN <<"validation:beforeValidate", "validation:validated",
           "validation:valid">>
  ELSE IF result = "false"
    THEN <<"validation:beforeValidate", "validation:validated",
           "validation:invalid">>
  ELSE <<"validation:beforeValidate">>

\* _handleSubmit(event): validate(), and on an invalid form
\* event.preventDefault().  An exception leaves the handler before that.
\* In revision 2 a listener that cancels validation:beforeValidate makes
\* the handler return before validate().
SubmitHandled(res, cancelled) ==
  IF cancelled
    THEN /\ ev' = [NoEvent EXCEPT !.type = "submit", !.submitted = TRUE,
                                  !.emitted = <<"validation:beforeValidate">>]
         /\ UNCHANGED <<dom, rend, comp, handlers, timer, burst, fv, order>>
  ELSE /\ res.ok
       /\ dom' = res.dom
       /\ rend' = res.rend
       /\ ev' = [NoEvent EXCEPT !.type = "submit", !.ran = TRUE,
                                !.result = res.result,
                                !.prevented = (res.result = "false"),
                                !.submitted = (res.result # "false"),
                                !.emitted = submitEvents(rev, res.result)]
       /\ UNCHANGED <<comp, handlers, timer, burst, fv, order>>

\* the user submits the form; in revision 2 a listener of the page may
\* cancel validation:beforeValidate
Submit(cancelled) ==
  /\ comp.isForm
  /\ cancelled => rev = 2 /\ Bound(Root, "submit") # {}
  /\ IF Bound(Root, "submit") # {} THEN SubmitHandled(Validated, cancelled)
                                   ELSE Unhandled("submit", None, TRUE)
  /\ UNCHANGED <<rev, shared, pure, renderVars, fld, attr, tpl, out, scanVars>>

\* _handleValidateClick(event): event.preventDefault(), validate(); rev 2
\* then submits a valid form itself.
ClickHandled(res) ==
  /\ res.ok
  /\ dom' = res.dom
  /\ rend' = res.rend
  /\ ev' = [NoEvent EXCEPT !.type = "click", !.ran = TRUE,
                           !.result = res.result,
                           !.prevented = TRUE,
                           !.submitted = (rev = 2 /\ res.result = "true"
                                          /\ comp.isForm)]
  /\ UNCHANGED <<comp, handlers, timer, burst, fv, order>>

\* the user clicks the submit button that carries data-validate
ClickValidate ==
  /\ IF Bound(Root, "click") # {} THEN ClickHandled(Validated)
                                  ELSE Unhandled("click", None, comp.isForm)
  /\ UNCHANGED <<rev, shared, pure, renderVars, fld, attr, tpl, out, scanVars>>

\* the handler of a unit: validator.validate()
UnitHandled(type, f, u, o) ==
  /\ o.ok
  /\ dom' = o.dom
  /\ rend' = [rend EXCEPT ![u] = o.r]
  /\ ev' = [NoEvent EXCEPT !.type = type, !.field = f, !.unit = u,
                           !.ran = TRUE, !.result = o.result]

LiveHandled(type, f, u) ==
  UnitHandled(type, f, u, validate(rev, attr, tpl, fld, dom, rend[u], fv[u]))

\* field f loses the focus (blur) or has its value committed (change)
FieldEvent(f, type) ==
  /\ Attached(dom, f)
  /\ IF Bound(f, type) # {}
       THEN /\ \E h \in Bound(f, type) : LiveHandled(type, f, h.unit)
            /\ UNCHANGED <<comp, handlers, timer, burst, fv, order>>
       ELSE Unhandled(type, f, FALSE)
  /\ UNCHANGED <<rev, shared, pure, renderVars, fld, attr, tpl, out, scanVars>>

\* a keystroke in field f: the debounced function of the handler is called
Input(f, val) ==
  /\ Attached(dom, f)
  /\ fld[f].value # val
  /\ fld' = [fld EXCEPT ![f].value = val]
  /\ IF Bound(f, "input") # {}
       THEN \E h \in Bound(f, "input") :
              /\ timer' = debounced(timer, h.deb)
              /\ burst' = [burst EXCEPT ![h.unit] = [quiet |-> 0, fired |-> FALSE]]
              /\ ev' = [NoEvent EXCEPT !.type = "input", !.field = f,
                                       !.unit = h.unit]
       ELSE /\ ev' = [NoEvent EXCEPT !.type = "input", !.field = f]
            /\ UNCHANGED <<timer, burst>>
  /\ UNCHANGED <<rev, shared, pure, dom, rend, renderVars, attr, tpl, fv, order, out,
                 scanVars, comp, handlers>>

\* a tick of the clock while timeouts are pending, none of them due
Tick ==
  /\ \E k \in DOMAIN timer : timer[k] > 0
  /\ \A k \in DOMAIN timer : timer[k] # 0
  /\ timer' = [k \in DOMAIN timer |-> IF timer[k] > 0 THEN timer[k] - 1 ELSE Idle]
  /\ burst' = [u \in Units |->
                 [burst[u] EXCEPT !.quiet = IF @ < DebounceDelay THEN @ + 1 ELSE @]]
  /\ ev' = NoEvent
  /\ UNCHANGED <<rev, shared, pure, dom, rend, renderVars, componentVars, scanVars, comp,
                 handlers>>

\* the timeout of the debounced function k runs: validator.validate()
TimerFires(k) ==
  /\ timer[k] = 0
  /\ timer' = [timer EXCEPT ![k] = Idle]
  /\ LiveHandled("timer", None, debouncedUnit(rev, fv, k))
  /\ burst' = [burst EXCEPT ![debouncedUnit(rev, fv, k)].fired = TRUE]
  /\ UNCHANGED <<rev, shared, pure, renderVars, fld, attr, tpl, fv, order, out, scanVars,
                 comp, handlers>>

\* component.destroy(); rev 2 also empties fieldValidators
DestroyComponent ==
  /\ ~comp.destroyed
  /\ comp' = [comp EXCEPT !.destroyed = TRUE]
  /\ handlers' = componentDestroy(rev, handlers)
  /\ order' = IF rev = 2 THEN << >> ELSE order
  /\ ev' = [NoEvent EXCEPT !.type = "destroy"]
  /\ UNCHANGED <<rev, shared, pure, dom, rend, renderVars, fld, attr, tpl, fv, out, scanVars,
                 timer, burst>>

\* a page script appends the second field to the root
AddField(f) ==
  /\ ~Attached(dom, f)
  /\ dom' = AppendTo(dom, Root, f)
  /\ comp' = [comp EXCEPT !.news = @ \cup {f}]
  /\ ev' = NoEvent
  /\ UNCHANGED <<rev, shared, pure, rend, renderVars, componentVars, scanVars, handlers,
                 timer, burst>>

FieldAddedHandled(f, st) ==
  /\ fv' = st.fv
  /\ rend' = st.rend
  /\ order' = st.order
  /\ handlers' = st.handlers
  /\ ev' = [NoEvent EXCEPT !.type = "field-added", !.field = f, !.ran = TRUE]
  /\ UNCHANGED <<dom, timer, burst>>

\* the page script triggers validation:field-added on the field it added
FieldAdded(f) ==
  /\ f \in comp.news
  /\ comp' = [comp EXCEPT !.news = @ \ {f}]
  /\ IF Bound(Root, "field-added") # {}
       THEN FieldAddedHandled(f,
              _handleFieldAdded(attr, rev, dom, comp,
                                [fv |-> fv, rend |-> rend, order |-> order,
                                 handlers |-> handlers], f))
       ELSE /\ ev' = [NoEvent EXCEPT !.type = "field-added", !.field = f]
            /\ UNCHANGED <<dom, rend, handlers, timer, burst, fv, order>>
  /\ UNCHANGED <<rev, shared, pure, renderVars, fld, attr, tpl, out, scanVars>>

\* component.refreshRules()
RefreshRules ==
  /\ fv' = refreshRules(attr, rev, fv, order)
  /\ ev' = [NoEvent EXCEPT !.type = "refresh", !.ran = TRUE]
  /\ UNCHANGED <<rev, shared, pure, dom, rend, renderVars, fld, attr, tpl, order, out,
                 scanVars, comp, handlers, timer, burst>>

NextEvents ==
  \/ \E cancelled \in BOOLEAN : Submit(cancelled)
  \/ ClickValidate
  \/ \E f \in Fields, type \in {"blur", "change"} : FieldEvent(f, type)
  \/ \E f \in Fields, val \in 0..MaxLen : Input(f, val)
  \/ Tick
  \/ \E k \in Units \cup Fields : TimerFires(k)
  \/ DestroyComponent
  \/ \E f \in Fields : AddField(f)
  \/ \E f \in Fields : FieldAdded(f)
  \/ RefreshRules

SpecEvents == InitEvents /\ [][NextEvents]_vars

\* ---- functions called on arguments of their own
SeqsUpTo(S, n) == UNION {[1..k -> S] : k \in 0..n}

\* The params objects: their keys, each once.
ParamObjects ==
  {ps \in SeqsUpTo(ParamKeys, MaxParams) :
     \A i, j \in 1..Len(ps) : i # j => ps[i] # ps[j]}

\* The calls to make.
FormatCalls ==
  {[fn |-> "format", done |-> FALSE, args |-> [message |-> m, params |-> ps]] :
     m \in SeqsUpTo(Tokens, MaxTokens), ps \in ParamObjects}

ValueCalls ==
  {[fn |-> "value", done |-> FALSE, args |-> [members |-> ms]] :
     ms \in SeqsUpTo(Members, MaxMembers) \ {<< >>}}

\* ---- a field announced twice
\* The validators, renderers and handlers of a component made over the
\* groups found at its construction.
componentOver(at, rv, d, cfg, groups) ==
  [fv |-> CreatedValidators(at, rv, groups),
   rend |-> CreatedRenderers(d, cfg.errorStyle, groups),
   order |-> [i \in 1..Len(groups) |-> i],
   handlers |-> boundAtInit(rv, cfg, CreatedValidators(at, rv, groups),
                            [i \in 1..Len(groups) |-> i])]

\* validation:field-added handled for f, and handled for f once more.
announcedTwice(at, rv, d, cfg, once, f) ==
  [first |-> [fv |-> once.fv, order |-> once.order],
   second |-> [fv |-> _handleFieldAdded(at, rv, d, cfg, once, f).fv,
               order |-> _handleFieldAdded(at, rv, d, cfg, once, f).order]]

\* The second field has the name given; the component was made when the
\* second field was hidden and the first was visible or not.  An unnamed
\* field is announced to a component without units, so that Units has room
\* for what the announcements make.
AnnounceCalls ==
  {[fn |-> "announce", done |-> FALSE,
    args |-> [name |-> n, withFirst |-> w]] :
     n \in {"", "a", "b"}, w \in BOOLEAN} \
  {[fn |-> "announce", done |-> FALSE,
    args |-> [name |-> "", withFirst |-> TRUE]]}

\* ---- a debounced function on its own
\* What happens to a debounced function, step by step: it is called, or the
\* clock ticks (wait is DebounceDelay ticks).
MaxTrace == 4
DebounceSteps == {"call", "tick"}

\* One step of debounce(func, wait, immediate) whose timeout is pending for
\* timeout more ticks (Idle: none is pending): the timeout afterwards, and
\* whether func was called.  A call sets the timeout anew.  In immediate
\* mode revision 1 tests the timeout before it sets the new one, revision
\* 2 after, when it holds the new timer.  A tick that the timeout is due on
\* runs later(): the timeout is null again and func is called unless
\* immediate.
debounceStep(rv, immediate, timeout, step) ==
  IF step = "call"
    THEN [timeout |-> DebounceDelay,
          fired |-> immediate /\ rv = 1 /\ timeout = Idle]
  ELSE IF timeout = Idle THEN [timeout |-> Idle, fired |-> FALSE]
  ELSE IF timeout = 1 THEN [timeout |-> Idle, fired |-> ~immediate]
  ELSE [timeout |-> timeout - 1, fired |-> FALSE]

\* The steps of trace from the i-th on; fired tells for each step so far
\* whether func was called in it.
RECURSIVE debounceFrom(_, _, _, _, _, _)
debounceNext(rv, immediate, trace, i, st, fired) ==
  debounceFrom(rv, immediate, trace, i + 1, st.timeout,
               Append(fired, st.fired))

debounceFrom(rv, immediate, trace, i, timeout, fired) ==
  IF i > Len(trace) THEN fired
  ELSE debounceNext(rv, immediate, trace, i,
                    debounceStep(rv, immediate, timeout, trace[i]), fired)

DebounceCalls ==
  {[fn |-> "debounce", done |-> FALSE,
    args |-> [immediate |-> im, trace |-> tr]] :
     im \in BOOLEAN, tr \in SeqsUpTo(DebounceSteps, MaxTrace)}

\* ---- the custom rule
\* The three texts of validation-rules.js that the repository holds, by the
\* place of their rule list.
RuleFiles == {"part_002:135", "part_002:332", "part_003"}

\* What the predicate in data-validate-custom returns: true, false, an
\* object with valid === false, an object with valid === true, undefined,
\* null, a string, a number.
CustomResults ==
  {"true", "false", "invalid", "valid", "undefined", "null", "string",
   "number"}

\* custom.validate($field, validator) with a predicate that returns result:
\* TRUE when the rule passes.  The first text passes on true alone; the
\* other two fail on false and on an object with valid === false alone.
customValidate(file, result) ==
  IF file = "part_002:135" THEN result = "true"
  ELSE result \notin {"false", "invalid"}

CustomCalls ==
  {[fn |-> "custom", done |-> FALSE, args |-> [file |-> f, result |-> r]] :
     f \in RuleFiles, r \in CustomResults}

\* ---- grouping fields of any name
FieldNames == {"", "a", "b"} \cup InheritedNames

\* _findAndGroupFields() where a name may be a property that the object
\* literal fieldGroups inherits: fieldGroups[groupKey] is then a function,
\* no list is put in its place, and fieldGroups[groupKey].push is no
\* function, a TypeError in the constructor of the component.
fieldGroups(at, fl, d) ==
  IF \E f \in Fields :
       /\ f \in Range(DocOrderOf(d, d.kids[Root]))
       /\ fl[f].shown = "visible"
       /\ at[f].name \in InheritedNames
    THEN [threw |-> TRUE, groups |-> << >>]
  ELSE [threw |-> FALSE, groups |-> _findAndGroupFields(at, fl, d)]

GroupCalls ==
  {[fn |-> "group", done |-> FALSE, args |-> [name |-> n, shown |-> sh]] :
     n \in [Fields -> FieldNames], sh \in [Fields -> ShownStates]}

\* ---- rule descriptors
\* A rule descriptor as the validator sees it: whether it has a selector
\* (one that matches the unit), whether it has a validate function, and
\* whether that function reports a failure.
MaxRules == 2
RuleDescriptors == [selector : BOOLEAN, validate : BOOLEAN, fails : BOOLEAN]
SoundRule(fails) == [selector |-> TRUE, validate |-> TRUE, fails |-> fails]

\* loadRules(): a rule without selector is left out.
applicableRules(rules) == SelectSeq(rules, LAMBDA rule : rule.selector)

RulesDone(threw, valid, ran) ==
  [threw |-> threw, valid |-> valid, ran |-> ran]

\* The loop of FieldValidator.validate() over applicableRules from rule i on;
\* ran counts the validate functions called.  Revision 1 passes over a rule
\* whose validate is no function; revision 2 calls it, a TypeError.
RECURSIVE applyRules(_, _, _, _)
applyRules(rv, rules, i, ran) ==
  IF i > Len(rules) THEN RulesDone(FALSE, TRUE, ran)
  ELSE IF ~rules[i].validate
    THEN IF rv = 1 THEN applyRules(rv, rules, i + 1, ran)
         ELSE RulesDone(TRUE, FALSE, ran)
  ELSE IF rules[i].fails THEN RulesDone(FALSE, FALSE, ran + 1)
  ELSE applyRules(rv, rules, i + 1, ran + 1)

\* ValidationComponent.validate() over two units: forEach without a catch,
\* so what the first unit throws ends the pass.
validateUnits(first, second) ==
  IF first.threw THEN [threw |-> TRUE, valid |-> FALSE, units |-> 0]
  ELSE [threw |-> second.threw, valid |-> first.valid /\ second.valid,
        units |-> IF second.threw THEN 1 ELSE 2]

RuleCalls ==
  {[fn |-> "rules", done |-> FALSE, args |-> [rules |-> rs, next |-> f]] :
     rs \in SeqsUpTo(RuleDescriptors, MaxRules), f \in BOOLEAN}

\* ---- constructors and their arguments
\* A constructor call is the class and the set of arguments that are given
\* (present and, for a jQuery collection, not empty).
Arguments(class) ==
  IF class = "FieldValidator"
    THEN {"$valueSource", "$errorScreen", "$root", "validationRules",
          "errorRenderer"}
  ELSE IF class = "FieldErrorRenderer" THEN {"$errorScreen"}
  ELSE {"element"}

Classes == {"FieldValidator", "FieldErrorRenderer", "BaseComponent"}

Thrown == [threw |-> TRUE, defaulted |-> {}]
Constructed(defaulted) == [threw |-> FALSE, defaulted |-> defaulted]

\* new FieldValidator(...): throws without $valueSource or errorRenderer;
\* validationRules that is no array becomes [], a missing $errorScreen
\* becomes $valueSource.first(); $root is stored as it comes.
FieldValidatorConstructor(given) ==
  IF "$valueSource" \notin given THEN Thrown
  ELSE IF "errorRenderer" \notin given THEN Thrown
  ELSE Constructed({"validationRules", "$errorScreen"} \ given)

\* new FieldErrorRenderer($errorScreen, config)
FieldErrorRendererConstructor(given) ==
  IF "$errorScreen" \notin given THEN Thrown ELSE Constructed({})

\* new BaseComponent(element)
BaseComponentConstructor(given) ==
  IF "element" \notin given THEN Thrown ELSE Constructed({})

ConstructorCalls ==
  UNION {{[fn |-> "new", done |-> FALSE,
           args |-> [class |-> c, given |-> g]] :
            g \in SUBSET Arguments(c)} : c \in Classes}

\* A component of n units made with config.errorStyle = was, and the style
\* to set.
StyleCalls ==
  {[fn |-> "style", done |-> FALSE,
    args |-> [units |-> n, was |-> was, styleName |-> s]] :
     n \in Units, was \in Styles, s \in Styles}

PureCalls ==
  FormatCalls \cup ValueCalls \cup StyleCalls \cup ConstructorCalls
    \cup RuleCalls \cup GroupCalls \cup CustomCalls \cup DebounceCalls
    \cup AnnounceCalls

InitPure ==
  /\ rev \in {1, 2}
  /\ dom = InitDom("shared", FALSE)
  /\ rend = [u \in Units |-> NoRenderer]
  /\ fld = [f \in Fields |-> [value |-> 0, shown |-> "visible"]]
  /\ attr = [f \in Fields |-> PlainField]
  /\ tpl = {}
  /\ fv = [u \in Units |-> NoValidator]
  /\ order = << >>
  /\ out = NoOut
  /\ lastCall = NoCall
  /\ trail = [u \in Units |-> "fresh"]
  /\ NothingScanned
  /\ NoEvents
  /\ shared = NoShared
  /\ pure \in PureCalls

Called(fn, result) ==
  /\ pure.fn = fn
  /\ ~pure.done
  /\ pure' = [fn |-> fn, done |-> TRUE, args |-> pure.args, result |-> result]
  /\ UNCHANGED <<rev, shared, dom, rend, renderVars, componentVars, scanVars,
                 eventVars>>

\* validator._formatMessage(message, params)
Format ==
  /\ pure.fn = "format"
  /\ Called("format", _formatMessage(rev, pure.args.message, pure.args.params))

\* required.validate($field, validator) on a validator of these members
ResolveValue ==
  /\ pure.fn = "value"
  /\ Called("value",
            [values |-> valuesOfMembers(rev, pure.args.members),
             valid |-> requiredValid(valuesOfMembers(rev, pure.args.members))])

\* component.setErrorStyle(styleName)
SetErrorStyle ==
  /\ pure.fn = "style"
  /\ Called("style",
            setErrorStyle([NoComponent EXCEPT !.errorStyle = pure.args.was],
                          [u \in Units |->
                             NewRenderer(dom, EsOf(u), pure.args.was, u)],
                          [i \in 1..pure.args.units |-> i],
                          pure.args.styleName))

\* new <class>(...)
Construct ==
  /\ pure.fn = "new"
  /\ Called("new",
            IF pure.args.class = "FieldValidator"
              THEN FieldValidatorConstructor(pure.args.given)
            ELSE IF pure.args.class = "FieldErrorRenderer"
              THEN FieldErrorRendererConstructor(pure.args.given)
            ELSE BaseComponentConstructor(pure.args.given))

\* component.validate() with the given rule list on the first unit and one
\* sound rule on the second.
ValidateRules ==
  /\ pure.fn = "rules"
  /\ Called("rules",
            validateUnits(
              applyRules(rev, applicableRules(pure.args.rules), 1, 0),
              applyRules(rev, <<SoundRule(pure.args.next)>>, 1, 0)))

\* new ValidationComponent(root) up to this._findAndGroupFields(), on a page
\* whose two fields have the given names and states
GroupFields ==
  /\ pure.fn = "group"
  /\ Called("group",
            fieldGroups([f \in Fields |->
                           [PlainField EXCEPT !.name = pure.args.name[f]]],
                        [f \in Fields |->
                           [value |-> 0, shown |-> pure.args.shown[f]]],
                        dom))

\* the rule custom on a field whose predicate returns pure.args.result
Custom ==
  /\ pure.fn = "custom"
  /\ Called("custom", customValidate(pure.args.file, pure.args.result))

\* a function made by debounce(func, DebounceDelay, immediate) lives
\* through the steps of pure.args.trace
Debounce ==
  /\ pure.fn = "debounce"
  /\ Called("debounce",
            debounceFrom(rev, pure.args.immediate, pure.args.trace, 1, Idle,
                         << >>))

\* The attributes of the fields in a call "announce".
AnnounceAttrs ==
  [f \in Fields |->
     [PlainField EXCEPT !.name = IF f = F1 THEN "a" ELSE pure.args.name,
                        !.required = TRUE]]

\* the page script shows the second field and triggers
\* validation:field-added on it twice
AnnounceTwice ==
  /\ pure.fn = "announce"
  /\ Called("announce",
            announcedTwice(AnnounceAttrs, rev, dom, NoComponent,
              _handleFieldAdded(AnnounceAttrs, rev, dom, NoComponent,
                componentOver(AnnounceAttrs, rev, dom, NoComponent,
                  _findAndGroupFields(AnnounceAttrs,
                    [f \in Fields |->
                       [value |-> 0,
                        shown |-> IF f = F1 /\ pure.args.withFirst
                                    THEN "visible" ELSE "hidden"]],
                    dom)),
                F2),
              F2))

NextPure ==
  \/ AnnounceTwice
  \/ Custom
  \/ Debounce
  \/ Format
  \/ ResolveValue
  \/ SetErrorStyle
  \/ Construct
  \/ ValidateRules
  \/ GroupFields

SpecPure == InitPure /\ [][NextPure]_vars

\* ================================================================== claims
\* The error nodes unit u's renderer inserted that are in the page.
ErrorNodesOf(d, u) == {n \in DynNodes : Attached(d, n) /\ d.owner[n] = u}

\* The wrappers renderers put around elements that are in the page.
Wrappers(d) ==
  {n \in DynNodes : Attached(d, n) /\ d.owner[n] = None
                     /\ "field_with_errors" \in d.cls[n]}

\* The error class of the unit's current style is on its element (a style
\* without an error class has nothing to apply).
ErrorClassOn(d, r) ==
  errorStyles[r.style].errorClass # ""
    => errorStyles[r.style].errorClass \in d.cls[r.es]

ErrorClassOff(d, r) ==
  errorStyles[r.style].errorClass \notin d.cls[r.es]

\* Only unit u's renderer has been called, and never its setStyle.
Alone(u) == trail[u] = "plain" /\ \A v \in Units \ {u} : trail[v] = "fresh"

\* C2: after any sequence of renderError calls on one renderer, exactly one
\* error node and one error-class application exist for the unit, and the node
\* shows the message rendered last.
C2_OneErrorAfterRender ==
  \A u \in Units :
    (Alone(u) /\ lastCall = [op |-> "render", unit |-> u]) =>
      /\ Cardinality(ErrorNodesOf(dom, u)) = 1
      /\ \A n \in ErrorNodesOf(dom, u) : dom.html[n] = rend[u].last
      /\ ErrorClassOn(dom, rend[u])

\* C3: a renderError or clearError call for one unit leaves the error nodes
\* and the classes of every other unit's element as they were.
C3_OtherUnitsUntouched ==
  [][\A v \in Units :
       v # lastCall'.unit =>
         /\ ErrorNodesOf(dom', v) = ErrorNodesOf(dom, v)
         /\ dom'.cls[EsOf(v)] = dom.cls[EsOf(v)]]_vars

\* C8: clearError() after renderError calls leaves no error node, no error
\* class and no wrapper for the unit, and hasError() is false; a second
\* clearError() changes nothing.
C8_ClearLeavesNothing ==
  /\ [](\A u \in Units :
          (Alone(u) /\ lastCall = [op |-> "clear", unit |-> u]) =>
            /\ ErrorNodesOf(dom, u) = {}
            /\ ErrorClassOff(dom, rend[u])
            /\ ParentOf(dom, EsOf(u)) \notin Wrappers(dom)
            /\ ~hasError(rev, dom, rend[u]))
  /\ [][\A u \in Units :
          (Alone(u) /\ lastCall = [op |-> "clear", unit |-> u]
             /\ lastCall' = lastCall /\ trail' = trail) =>
            (dom' = dom /\ rend' = rend)]_vars

\* C9: clearError() takes out of the page only error nodes its own renderer
\* inserted (and that renderer's wrapper); the templates block and every
\* element the page had before rendering stay.
C9_ClearRemovesOnlyOwn ==
  [][lastCall'.op = "clear" =>
       \A n \in Nodes :
         (Attached(dom, n) /\ ~Attached(dom', n)) =>
           \/ n \in ErrorNodesOf(dom, lastCall'.unit)
           \/ n \in Wrappers(dom)]_vars

\* ---------------------------------------------------- claims on validate()
\* Unit u's display element is visible and enabled.
Shown(u) == fld[fv[u].es].shown = "visible"

\* The index of the first of unit u's rules that fails on the values typed
\* (0: none fails).
FirstFailing(u) ==
  LET failing == {i \in 1..Len(fv[u].rules) :
                    RuleFails(attr, fv[u].vs, fv[u].rules[i], getFieldValue(fld, fv[u]))}
  IN IF failing = {} THEN 0
     ELSE CHOOSE i \in failing : \A j \in failing : i <= j

\* C1: after component.validate() has returned, every unit that failed shows
\* exactly one error node and its error class, and every visible unit that
\* passed shows no error node and no error class.
C1_OneErrorPerFailedUnit ==
  (out.op = "validate" /\ out.result \in {"true", "false"}) =>
    \A u \in Range(order) :
      /\ out.unitResult[u] = "false" =>
           /\ Cardinality(ErrorNodesOf(dom, u)) = 1
           /\ ErrorClassOn(dom, rend[u])
      /\ (out.unitResult[u] = "true" /\ Shown(u)) =>
           /\ ErrorNodesOf(dom, u) = {}
           /\ ErrorClassOff(dom, rend[u])

\* C4: component.validate() calls validate() of every unit, whatever the
\* units before it returned, and returns true exactly when every unit's
\* validate() returned true.
C4_AllUnitsEvaluated ==
  out.op = "validate" =>
    /\ \A u \in Range(order) : out.unitResult[u] \in {"true", "false"}
    /\ (out.result = "true") <=> (\A u \in Range(order) : out.unitResult[u] = "true")

\* C5: validate() of a visible unit evaluates the unit's rules in their order
\* up to and including the first that fails; it then returns false and the
\* message rendered is that rule's; when no rule fails all were evaluated.
C5_FirstFailureWins ==
  \A u \in Range(order) :
    (out.op = "validateUnit" /\ out.unit = u /\ Shown(u)) =>
      LET k == FirstFailing(u) IN
        IF k = 0
          THEN out.evaluated[u] = fv[u].rules /\ out.result = "true"
          ELSE /\ out.evaluated[u] = SubSeq(fv[u].rules, 1, k)
               /\ out.result = "false"
               /\ rend[u].last # Null
               /\ RuleOfMsg(rend[u].last) = fv[u].rules[k]
               /\ \E n \in ErrorNodesOf(dom, u) : dom.html[n] = rend[u].last

\* C6: validate() of a unit whose display element is hidden or disabled
\* returns true and leaves the page as it was.
C6_HiddenUnitUntouched ==
  [][\A u \in Range(order) :
       (out'.op = "validateUnit" /\ out'.unit = u /\ ~Shown(u)) =>
         (out'.result = "true" /\ dom' = dom)]_vars

\* C7 as stated: a hidden or disabled unit is never reported invalid and
\* never shows an error node, whether or not validate() ran after it was
\* hidden or disabled.
C7_HiddenUnitShowsNoError ==
  \A u \in Range(order) :
    ~Shown(u) =>
      /\ out.unitResult[u] \in {"none", "true"}
      /\ ErrorNodesOf(dom, u) = {}

\* C7 amended: validate() reports a hidden or disabled unit valid and renders
\* no error for it; hiding, disabling or showing a field changes nothing in
\* the page, so an error rendered before stays until a later call removes it.
C7_HiddenUnitValidNotRendered ==
  [][/\ \A u \in Range(order) :
          (out'.op \in {"validate", "validateUnit"} /\ ~Shown(u)) =>
            /\ out'.unitResult[u] \in {"none", "true"}
            /\ ErrorNodesOf(dom', u) \subseteq ErrorNodesOf(dom, u)
     /\ (\E f \in Fields : fld'[f].shown # fld[f].shown) => dom' = dom]_vars

\* A hidden or disabled unit with an empty required field has been validated
\* and reported valid while the error rendered before is still in the page.
C7_Witness ==
  \E u \in Range(order) :
    /\ ~Shown(u)
    /\ out.op = "validateUnit" /\ out.unit = u /\ out.result = "true"
    /\ FirstFailing(u) # 0
    /\ ErrorNodesOf(dom, u) # {}

\* ------------------------------------------------ claims on the message tiers
\* The tier a message markup came from.
TierOfMsg(m) == m % 10

\* The first of the five sources that exists for the rule on unit u: the
\* inline attribute, the template in the block of class errorTemplateClass,
\* (no page of the model has a legacy template) the rule's default message.
FirstSource(u, rule) ==
  IF rule \in attr[fv[u].vs[1]].inline THEN 1
  ELSE IF Attached(dom, T1) /\ errorTemplateClass \in dom.cls[T1] /\ rule \in tpl
    THEN 2
  ELSE 4

\* C19: the message of a failed rule comes from the first source that exists,
\* in the order inline, container template, legacy template, rule default,
\* fallback, and the tier reported is that source's.
C19_FirstSourceWins ==
  \A u \in Range(order) :
    (out.op = "validateUnit" /\ out.unit = u /\ Shown(u) /\ FirstFailing(u) # 0) =>
      /\ out.result # "throw"
      /\ rend[u].last # Null
      /\ TierOfMsg(rend[u].last) = FirstSource(u, fv[u].rules[FirstFailing(u)])

\* C20: a rule with a default message fails on a unit without inline
\* override, container template and legacy template: validate() returns
\* false and the text rendered is the default message, tier 4.
C20_DefaultMessageRendered ==
  \A u \in Range(order) :
    (/\ out.op = "validateUnit" /\ out.unit = u /\ Shown(u)
     /\ FirstFailing(u) # 0
     /\ FirstSource(u, fv[u].rules[FirstFailing(u)]) = 4) =>
      /\ out.result = "false"
      /\ \E n \in ErrorNodesOf(dom, u) :
           dom.html[n] = MsgOf(fv[u].rules[FirstFailing(u)], 4)

\* ------------------------------------------------------- claims on scan()
\* The component objects registered for element e.
InstancesOf(ins, e) == {i \in 1..Len(ins) : ins[i].el = e}

\* C10: after a scan(root) each marked element that is root or lies inside it
\* has exactly one component instance, and a scan gives an element that
\* carries a back-reference no new instance.
C10_OneInstancePerMarked ==
  /\ [](scanned.op = "scan" =>
          \A e \in Range(ScanTargets(marked, scanned.root)) :
            Cardinality(InstancesOf(instances, e)) = 1)
  /\ [][scanned'.op = "scan" =>
          \A e \in Elements :
            backref[e] # NoInstance =>
              /\ backref'[e] = backref[e]
              /\ InstancesOf(instances', e) = InstancesOf(instances, e)]_vars

\* C11: when a constructor throws during scan(root), every other marked
\* element under root that had no instance still gets one in that scan call.
C11_ScanIsolatesFailure ==
  (scanned.op = "scan" /\ scanned.aborted) =>
    \A e \in Range(ScanTargets(marked, scanned.root)) \ faulty :
      backref[e] # NoInstance

\* The ids of the registered and of the destroyed instances.
Registered == {x.id : x \in Range(instances)}
DestroyedIds == {g.id : g \in gone}

EventTypes == {"submit", "click", "field-added", "blur", "change", "input"}

\* C12: once the component is destroyed, a submit, a click on [data-validate],
\* a validation:field-added, a blur, a change or an input event on the root
\* or its fields runs no validation, schedules none and leaves the page as
\* it is.
C12_DestroyDetachesTriggers ==
  [][(comp.destroyed /\ ev'.type \in EventTypes) =>
       (~ev'.ran /\ dom' = dom /\ timer' = timer)]_vars

\* C14: a debounced validate() of a unit runs only when the delay has
\* elapsed since the unit's last keystroke, and only once after it.
C14_OneValidateAfterQuietDelay ==
  [][ev'.type = "timer" =>
       (burst[ev'.unit].quiet >= DebounceDelay /\ ~burst[ev'.unit].fired)]_vars

\* The units of the component that are visible and have a failing rule.
FailingUnits == {u \in Range(order) : Shown(u) /\ FirstFailing(u) # 0}

\* C15: when the component handled a submit event and some unit fails, the
\* default action of the event was prevented.
C15_InvalidSubmitPrevented ==
  (ev.type = "submit" /\ ev.ran /\ FailingUnits # {}) =>
    (ev.prevented /\ ~ev.submitted)

\* C16: when the component handled a click on the [data-validate] submit
\* button of a form and every unit is valid, the form is submitted.
C16_ValidClickSubmits ==
  (ev.type = "click" /\ ev.ran /\ ev.result = "true" /\ comp.isForm) =>
    ev.submitted

\* The units that hold a field of the name of f.
UnitsNamedAs(vals, ord, f) ==
  {u \in Range(ord) :
     \E i \in 1..Len(vals[u].vs) : attr[vals[u].vs[i]].name = attr[f].name}

C18_RefreshRepartitions ==
  [][(ev'.type = "refresh" /\ ~comp.destroyed
      /\ \E f \in comp.news : UnitsNamedAs(fv, order, f) = {}) =>
       Len(order') > Len(order)]_vars

\* ------------------------------------------------- claims on single functions
\* C21: _formatMessage replaces a placeholder by the value of a key of
\* params of its name, whatever the case of either, leaves a placeholder
\* of no such key as it is, and leaves the text between them.
C21_PlaceholdersIgnoreCase ==
  (pure.fn = "format" /\ pure.done) =>
    /\ Len(pure.result) = Len(pure.args.message)
    /\ \A i \in 1..Len(pure.args.message) :
         IF pure.args.message[i].kind = "slot"
              /\ KeysNamed(pure.args.params, pure.args.message[i]) # << >>
           THEN \E k \in Range(KeysNamed(pure.args.params, pure.args.message[i])) :
                  pure.result[i] = ValueOf(k)
           ELSE pure.result[i] = pure.args.message[i]

\* Whether an element holds a value that is not blank: a text was typed or
\* chosen, and a checkbox or radio button is checked.
HoldsValue(m) ==
  /\ m.val = "x"
  /\ (m.type \in ChoiceTypes => m.checked)

\* C22: on a unit of several elements the rule required passes if and only
\* if some element holds a value that is not blank.
C22_RequiredOnSeveral ==
  (pure.fn = "value" /\ pure.done /\ Len(pure.args.members) > 1) =>
    (pure.result.valid <=>
       \E i \in 1..Len(pure.args.members) : HoldsValue(pure.args.members[i]))

\* C23: the value of a unit of several checkboxes or radio buttons holds
\* the value of each checked element and nothing of an unchecked one.
C23_CheckedOnly ==
  (pure.fn = "value" /\ pure.done /\ Len(pure.args.members) > 1
   /\ \A i \in 1..Len(pure.args.members) :
        pure.args.members[i].type \in ChoiceTypes) =>
    \A i \in 1..Len(pure.args.members) :
      pure.result.values[i] =
        IF pure.args.members[i].checked THEN pure.args.members[i].val ELSE ""

\* C24: when validate() of a unit of several elements returned false, every
\* element of the unit carries the error class of the unit's style and the
\* unit shows exactly one message node.
C24_EveryElementMarked ==
  (ev.ran /\ ev.result = "false"
   /\ ev.type \in {"submit", "click", "blur", "change", "timer"}) =>
    \A u \in Range(order) :
      (ev.unit \in {None, u} /\ Len(fv[u].vs) > 1 /\ Shown(u)
       /\ FirstFailing(u) # 0) =>
        /\ \A i \in 1..Len(fv[u].vs) :
             HasClass(dom, fv[u].vs[i], errorStyles[rend[u].style].errorClass)
        /\ Cardinality(ErrorNodesOf(dom, u)) = 1

\* ------------------------------------------------------- claims on setStyle
\* C25: a setStyle that changes the style of a renderer changes nothing
\* else of the renderer, nothing of the other renderers and nothing of the
\* page: the error nodes, classes and wrappers shown stay as they are.
C25_SetStyleLeavesShown ==
  [][\A u \in Units :
       rend'[u].style # rend[u].style =>
         /\ dom' = dom
         /\ rend'[u] = [rend[u] EXCEPT !.style = rend'[u].style]
         /\ \A w \in Units \ {u} : rend'[w] = rend[w]]_vars

\* A renderer whose style was changed while its error was shown: the page
\* still has the message node and the error class of the former style, and
\* not the error class of the current one.
C25_Witness ==
  \E u \in Units, s \in Styles :
    /\ trail[u] = "styled"
    /\ s # rend[u].style
    /\ rend[u].last # Null
    /\ ErrorNodesOf(dom, u) # {}
    /\ errorStyles[s].errorClass # ""
    /\ HasClass(dom, rend[u].es, errorStyles[s].errorClass)
    /\ errorStyles[rend[u].style].errorClass # ""
    /\ ~HasClass(dom, rend[u].es, errorStyles[rend[u].style].errorClass)

\* C26: after setErrorStyle(name) the renderer of every unit has the style
\* name and config.errorStyle of the component is name.
C26_StyleSetEverywhere ==
  (pure.fn = "style" /\ pure.done) =>
    /\ \A u \in 1..pure.args.units :
         pure.result.rend[u].style = pure.args.styleName
    /\ pure.result.config.errorStyle = pure.args.styleName

\* C27: a constructor call that lacks one of the arguments of its class
\* throws; no missing argument is replaced by a default.
C27_MissingArgumentThrows ==
  (pure.fn = "new" /\ pure.done
     /\ pure.args.given # Arguments(pure.args.class)) =>
    pure.result.threw

\* C28: a rule without selector or without validate function is passed
\* over: validate() does not throw, both units are evaluated, and the pass
\* is valid exactly if no sound rule reports a failure.
SoundFailure(rules) ==
  \E i \in 1..Len(rules) :
    rules[i].selector /\ rules[i].validate /\ rules[i].fails

C28_MalformedRuleSkipped ==
  (pure.fn = "rules" /\ pure.done) =>
    /\ ~pure.result.threw
    /\ pure.result.units = 2
    /\ pure.result.valid =
         (~SoundFailure(pure.args.rules) /\ ~pure.args.next)

\* ================================================================== claims on the container
\* C29: a setState(s) in which no hook throws merges s into the shared state
\* and calls onStateChange on every component of the container, once each.
C29_SetStateTellsAll ==
  [][(shared'.op = "set" /\ ~shared'.threw) =>
       /\ shared'.state = shared.state \cup shared'.given
       /\ shared'.told = components]_vars

\* ================================================================== claims on the grouper
\* The groups a field is in.
GroupsOf(groups, f) == {g \in 1..Len(groups) : f \in Range(groups[g])}

\* C30: the grouper puts every visible, enabled field into exactly one
\* group; two fields are in one group exactly if they have the same name and
\* that name is not empty.
C30_OneGroupPerField ==
  (pure.fn = "group" /\ pure.done) =>
    /\ ~pure.result.threw
    /\ \A f \in Fields :
         Cardinality(GroupsOf(pure.result.groups, f)) =
           IF pure.args.shown[f] = "visible" THEN 1 ELSE 0
    /\ (\A f \in Fields : pure.args.shown[f] = "visible") =>
         (GroupsOf(pure.result.groups, F1) = GroupsOf(pure.result.groups, F2))
           = (pure.args.name[F1] = pure.args.name[F2]
                /\ pure.args.name[F1] # "")

\* ================================================================== claims on the rule custom
\* C31: the rule custom passes when its predicate returns something that
\* is not true, not false and not an object with valid === false.
C31_CustomFailsOpen ==
  (pure.fn = "custom" /\ pure.done
     /\ pure.args.result \notin {"true", "false", "invalid"}) =>
    pure.result

\* ================================================================== claims on the events of a submit
\* C32: a submit that the component handles triggers
\* validation:beforeValidate, runs validate(), triggers validation:validated
\* and then one of validation:valid and validation:invalid, the latter
\* exactly when the submit is suppressed.
C32_SubmitLifecycle ==
  (ev.type = "submit" /\ Bound(Root, "submit") # {}) =>
    /\ ev.ran
    /\ Len(ev.emitted) = 3
    /\ ev.emitted[1] = "validation:beforeValidate"
    /\ ev.emitted[2] = "validation:validated"
    /\ ev.emitted[3] \in {"validation:valid", "validation:invalid"}
    /\ (ev.emitted[3] = "validation:invalid") = ev.prevented

\* ================================================================== claims on debounce
\* The ticks among the steps after step j and before step i.
TicksBetween(trace, j, i) ==
  Cardinality({k \in (j + 1)..(i - 1) : trace[k] = "tick"})

\* No call in the DebounceDelay ticks before step i.
QuietBefore(trace, i) ==
  \A j \in 1..(i - 1) :
    trace[j] = "call" => TicksBetween(trace, j, i) >= DebounceDelay

\* C33: in immediate mode func is called in exactly the calls that come
\* after DebounceDelay ticks without a call (the first call among them), and
\* never by the timeout.
C33_ImmediateFiresAtOnce ==
  (pure.fn = "debounce" /\ pure.done /\ pure.args.immediate) =>
    \A i \in 1..Len(pure.args.trace) :
      pure.result[i] =
        (pure.args.trace[i] = "call" /\ QuietBefore(pure.args.trace, i))

\* ================================================================== claims on timers and destroy()
\* C34: once the component is destroyed, no timeout of a debounced live
\* validation runs a unit's validate().
C34_NoValidateAfterDestroy ==
  (comp.destroyed /\ ev.type = "timer") => ~ev.ran

\* ================================================================== claims on failed constructions
\* C35: an element whose component's construction throws carries no
\* back-reference and has no entry in ComponentScanner.instances.
C35_FailedConstructionLeavesNothing ==
  \A e \in faulty :
    backref[e] = NoInstance /\ InstancesOf(instances, e) = {}

\* ================================================================== claims on Container.destroy
\* C36: container.destroy() destroys every component of the container:
\* afterwards none of them is in ComponentScanner.instances or is the
\* back-reference of its element.
C36_ContainerDestroysAll ==
  [][scanned'.op = "destroyAll" =>
       \A id \in Range(components) :
         /\ \A x \in Range(instances') : x.id # id
         /\ backref'[ElementOf(instances, id)] # id]_vars

\* ================================================================== claims on the guard of setState
\* C37: when a setState call ends, by return or by the exception of a hook,
\* the guard _isSettingState is released; the call has merged its argument
\* into the state and has called the hook of a component if there is one.
C37_GuardReleased ==
  [][shared'.op = "set" =>
       /\ ~shared'.busy
       /\ shared'.given \subseteq shared'.state
       /\ components # << >> => shared'.told # << >>]_vars

\* ================================================================== claims on clearError after setStyle
\* The error classes and the wrapper classes of all styles.
AnyErrorClass == {errorStyles[s].errorClass : s \in Styles} \ {""}
AnyContainerClass == {errorStyles[s].containerClass : s \in Styles} \ {""}

\* The element of unit u carries an error class or stands in a wrapper.
MarkedAsError(u) ==
  \/ dom.cls[rend[u].es] \cap AnyErrorClass # {}
  \/ /\ ParentOf(dom, rend[u].es) # None
     /\ dom.cls[ParentOf(dom, rend[u].es)] \cap AnyContainerClass # {}

\* C38: after clearError() the element of the unit carries no error class
\* of any style and stands in no wrapper of any style (the marks hasError()
\* looks for), whatever setStyle() calls came between renderError() and
\* clearError().
C38_ClearedWhateverStyle ==
  lastCall.op = "clear" => ~MarkedAsError(lastCall.unit)

\* ================================================================== claims on getErrors
\* The units getErrors() lists in the current state.
Listed == {e.unit : e \in Range(getErrors(dom, rend, order))}

\* C39: after validate() getErrors() lists exactly the units whose
\* validate() failed, each with a message that is not null.
C39_ErrorsOfFailedUnits ==
  (rev = 2 /\ out.op = "validate" /\ out.result # "throw") =>
    /\ Listed = {u \in Range(order) : out.unitResult[u] = "false"}
    /\ \A e \in Range(getErrors(dom, rend, order)) : e.message # Null

\* ================================================================== claims on repeated announcements
\* The units of a component st that hold the field f.
UnitsHolding(st, f) ==
  {u \in Range(st.order) : f \in Range(st.fv[u].vs)}

\* C40: after validation:field-added was handled twice for one field, the
\* units are those after the first time, and one unit holds the field.
C40_AnnouncedOnceOrTwice ==
  (pure.fn = "announce" /\ pure.done) =>
    /\ pure.result.second.order = pure.result.first.order
    /\ \A u \in Range(pure.result.first.order) :
         pure.result.second.fv[u] = pure.result.first.fv[u]
    /\ Cardinality(UnitsHolding(pure.result.second, F2)) = 1

====
